---- MODULE Spec2Model ----
(***************************************************************************)
(* A model of the encrypted key-value store (package ekv): the durable     *)
(* record codec (two slot files per record, a modular generation counter   *)
(* and a checksum), the cryptographic layer, and the Filestore with its    *)
(* lock table, per-key locks and transactions.                             *)
(*                                                                         *)
(* A byte string is a sequence of tokens and a token is a sequence of      *)
(* integers: an ordinary byte b is <<b>>; a whole AEAD-sealed box and one   *)
(* byte of a hash are longer tokens that carry what they were computed     *)
(* from, so that sealing and hashing are injective, as the primitives are  *)
(* taken to be.                                                            *)
(***************************************************************************)
EXTENDS Integers, Sequences, FiniteSets, TLC

(***************************************************************************)
(* Bounds of the model.                                                    *)
(***************************************************************************)
\* Longest payload handed to the codec directly (SpecCodec).
MaxPayload == 2
\* Length of a nonce in tokens; stands for cipher.NonceSize().
NonceLen == 1
\* Length of a checksum in tokens; stands for blake2b.Size256.
SumLen == 2

(***************************************************************************)
(* Byte strings.                                                           *)
(***************************************************************************)
Byte(b) == <<b>>

ByteVal(tok) == IF Len(tok) = 1 THEN tok[1] ELSE 0

\* s[a..b] as Go's s[a-1:b], clipped to what s holds
Slice(s, a, b) == [i \in 1..(IF b > Len(s) THEN Len(s) ELSE b) - a + 1 |-> s[a + i - 1]]

RECURSIVE Flatten(_)
Flatten(s) == IF s = <<>> THEN <<>>
              ELSE <<Len(s[1])>> \o s[1] \o Flatten(Tail(s))

\* blake2b.Sum256: SumLen tokens, each carrying the hashed string
Sum256(p) == [i \in 1..SumLen |-> <<-2, i>> \o Flatten(p)]

(***************************************************************************)
(* The record codec: write, read, deleteFiles.  A slot file is NoFile or a  *)
(* byte string.                                                            *)
(***************************************************************************)
NoFile == <<<<-9>>>>

\* (mutant) the counters compared as plain numbers, without the wrap
compareModMonCntr_noWrap(t1, t2) ==
    IF t1 > 2 \/ t2 > 2 \/ t1 = t2 THEN 0 ELSE IF t1 > t2 THEN 1 ELSE 2

\* compareModMonCntr: 1 if t1 is newer, 2 if t2 is newer, 0 otherwise
compareModMonCntr(t1, t2) ==
    IF (t1 = 1 /\ t2 = 0) \/ (t1 = 2 /\ t2 = 1) \/ (t1 = 0 /\ t2 = 2) THEN 1
    ELSE IF (t1 = 0 /\ t2 = 1) \/ (t1 = 1 /\ t2 = 2) \/ (t1 = 2 /\ t2 = 0) THEN 2
    ELSE 0

\* portableOS.Open followed by ReadAt(buf, 0) of one byte: the error and the
\* byte (3 when nothing was read)
OpenErr(f) == IF f = NoFile THEN "notexist" ELSE IF Len(f) = 0 THEN "eof" ELSE "nil"

FirstByte(f) == IF f = NoFile \/ Len(f) = 0 THEN 3 ELSE ByteVal(f[1])

\* getFileOrder: the slot numbers (0 for nil) of the newest and the oldest
\* file, and the error
getFileOrder(f1, f2) ==
    LET err1 == OpenErr(f1)
        err2 == OpenErr(f2)
        cmp  == compareModMonCntr(FirstByte(f1), FirstByte(f2))
    IN  IF err1 = "notexist" /\ err2 = "notexist"
          THEN [newest |-> 0, oldest |-> 0, err |-> "notexist"]
        ELSE IF err1 # "nil" /\ err2 # "nil"
          THEN [newest |-> 0, oldest |-> 0, err |-> "newestfile"]
        ELSE IF err1 # "nil" THEN [newest |-> 2, oldest |-> 0, err |-> "nil"]
        ELSE IF err2 # "nil" THEN [newest |-> 1, oldest |-> 0, err |-> "nil"]
        ELSE IF cmp = 1 THEN [newest |-> 1, oldest |-> 2, err |-> "nil"]
        ELSE IF cmp = 2 THEN [newest |-> 2, oldest |-> 1, err |-> "nil"]
        ELSE [newest |-> 0, oldest |-> 0, err |-> "invalidval"]

\* binary.LittleEndian.Uint32 of the four size bytes
Uint32LE(b) == ByteVal(b[1]) + 256 * ByteVal(b[2]) + 65536 * ByteVal(b[3])
               + 16777216 * ByteVal(b[4])

\* readContents: the payload of an open slot file, or the error
readContents(f) ==
    LET avail1 == Len(f) - 1
        size   == Uint32LE(Slice(f, 2, 5))
        avail2 == Len(f) - 5
        avail3 == Len(f) - 5 - size
        data   == Slice(f, 6, 5 + size)
        sum    == Slice(f, 6 + size, 5 + size + SumLen)
    IN  IF avail1 <= 0 THEN [ok |-> FALSE, data |-> <<>>, err |-> "readsize"]
        ELSE IF avail1 < 4 THEN [ok |-> FALSE, data |-> <<>>, err |-> "shortread"]
        ELSE IF size > 0 /\ avail2 <= 0
          THEN [ok |-> FALSE, data |-> <<>>, err |-> "readcontents"]
        ELSE IF avail2 < size THEN [ok |-> FALSE, data |-> <<>>, err |-> "shortread"]
        ELSE IF avail3 <= 0 THEN [ok |-> FALSE, data |-> <<>>, err |-> "readchecksum"]
        ELSE IF avail3 < SumLen THEN [ok |-> FALSE, data |-> <<>>, err |-> "shortread"]
        ELSE IF sum # Sum256(data) THEN [ok |-> FALSE, data |-> <<>>, err |-> "checksum"]
        ELSE [ok |-> TRUE, data |-> data, err |-> "nil"]

Slot(slots, n) == slots[n]

\* readContents of slot n, if getFileOrder named one
readSlot(slots, n) ==
    IF n = 0 THEN [ok |-> FALSE, data |-> <<>>, err |-> "nofile"]
    ELSE readContents(Slot(slots, n))

\* read, after the slots were read: the newest payload that is not empty
readPick(ord, rn, ro) ==
    IF rn.ok /\ Len(rn.data) # 0 THEN [data |-> rn.data, isnil |-> FALSE, err |-> "nil"]
    ELSE IF ro.ok /\ Len(ro.data) # 0
      THEN [data |-> ro.data, isnil |-> FALSE, err |-> "nil"]
    ELSE [data |-> <<>>, isnil |-> TRUE, err |-> ord.err]

\* read, after getFileOrder
readOrdered(slots, ord) ==
    readPick(ord, readSlot(slots, ord.newest), readSlot(slots, ord.oldest))

\* read: the payload of the newest slot that validates
read(slots) == readOrdered(slots, getFileOrder(slots[1], slots[2]))

\* The four bytes write stores after the counter: copy(contents[1:4], sizeBytes)
\* copies three of the four size bytes, the fourth stays zero.
SizeField(size) ==
    <<Byte(size % 256), Byte((size \div 256) % 256), Byte((size \div 65536) % 256),
      Byte(0)>>

\* write: slot n was named by getFileOrder and its contents read
WriteReadOk(slots, n) ==
    n # 0 /\ Len(Slot(slots, n)) >= 1 /\ readContents(Slot(slots, n)).ok

\* write, after getFileOrder: which slot was read, and the counter found in it
WriteReadOrdered(slots, ord) ==
    IF WriteReadOk(slots, ord.newest)
      THEN [wasRead |-> ord.newest, cntr |-> FirstByte(Slot(slots, ord.newest))]
    ELSE IF WriteReadOk(slots, ord.oldest)
      THEN [wasRead |-> ord.oldest, cntr |-> FirstByte(Slot(slots, ord.oldest))]
    ELSE [wasRead |-> 0, cntr |-> 2]

\* write, first part: which slot was read, and the counter found in it
WriteRead(slots) == WriteReadOrdered(slots, getFileOrder(slots[1], slots[2]))

\* the slot that was not read; the first if none was
OtherSlot(wasRead) == IF wasRead = 0 \/ wasRead = 2 THEN 1 ELSE 2

\* (mutant) write targets the slot it has just read
WriteTarget_sameSlot(slots) ==
    LET wasRead == WriteRead(slots).wasRead
    IN  IF wasRead = 0 \/ wasRead = 1 THEN 1 ELSE 2

\* the slot write creates and writes: the one that was not read
WriteTarget(slots) == OtherSlot(WriteRead(slots).wasRead)

\* (mutant) write stores the counter it read, without the step to the next
WriteContents_sameCntr(slots, data) ==
    <<Byte(WriteRead(slots).cntr % 3)>> \o SizeField(Len(data)) \o data
        \o Sum256(data)

\* the bytes write puts in the target slot
WriteContents(slots, data) ==
    <<Byte((WriteRead(slots).cntr + 1) % 3)>> \o SizeField(Len(data)) \o data
        \o Sum256(data)

\* createFile: the target exists and is empty
createFile(slots, n) == [slots EXCEPT ![n] = <<>>]

\* fileToWrite.Write of the first k bytes of the contents
WriteBytes(slots, n, contents, k) == [slots EXCEPT ![n] = Slice(contents, 1, k)]

\* the check after the write: what was written reads back as data
WriteVerify(slots, n, data) ==
    LET rc == readContents(Slot(slots, n))
    IN  IF ~rc.ok THEN rc.err ELSE IF rc.data # data THEN "cannotread" ELSE "nil"

\* write, its end: the slots it leaves and the error of the check
WriteChecked(after, n, data) == [slots |-> after, err |-> WriteVerify(after, n, data)]

\* write, from createFile on: the contents go to slot n
WriteTo(slots, data, n, contents) ==
    WriteChecked(WriteBytes(createFile(slots, n), n, contents, Len(contents)), n, data)

\* (mutant) write without the check of the payload's length
write_noSizeCheck(slots, data) ==
    WriteTo(slots, data, WriteTarget(slots), WriteContents(slots, data))

\* write: the slots after a complete call, and the error
write(slots, data) ==
    IF Len(data) = 0 THEN [slots |-> slots, err |-> "invalidsize"]
    ELSE WriteTo(slots, data, WriteTarget(slots), WriteContents(slots, data))

\* deleteFile: the file is overwritten and removed, if it exists
deleteFile(slots, n) == [slots EXCEPT ![n] = NoFile]

\* (mutant) deleteFiles stops after the first slot
deleteFiles_first(slots) == deleteFile(slots, 1)

\* deleteFiles: both slots, one after the other
deleteFiles(slots) == deleteFile(deleteFile(slots, 1), 2)


(***************************************************************************)
(* The cryptographic layer: encrypt, decrypt.  A password is a number; the *)
(* key derived from it stands for blake2b.Sum256 of the password.          *)
(***************************************************************************)
\* the nonce encrypt reads from the csprng: NonceLen bytes, here all n
Nonce(n) == [i \in 1..NonceLen |-> Byte(n)]

BytesOf(data) == [i \in 1..Len(data) |-> ByteVal(data[i])]

\* chaCipher.Seal: one token that carries the key, the nonce and the plaintext
Seal(pw, nonce, data) == <<<<-1, pw>> \o BytesOf(nonce) \o <<-3>> \o BytesOf(data)>>

\* encrypt: the nonce, then the sealed box
encrypt(data, pw, n) == Nonce(n) \o Seal(pw, Nonce(n), data)

\* (mutant) the box opens under any password
Open_anyKey(pw, nonce, box) ==
    LET b == IF Len(box) = 1 THEN box[1] ELSE <<>>
        n == 3 + Len(nonce)
    IN  IF Len(box) = 1 /\ Len(b) >= n
          THEN [ok |-> TRUE, data |-> [i \in 1..(Len(b) - n) |-> Byte(b[n + i])]]
          ELSE [ok |-> FALSE, data |-> <<>>]

\* chaCipher.Open: the plaintext of a box sealed under pw and nonce
Open(pw, nonce, box) ==
    LET hdr == <<-1, pw>> \o BytesOf(nonce) \o <<-3>>
        b   == IF Len(box) = 1 THEN box[1] ELSE <<>>
    IN  IF Len(box) = 1 /\ Len(b) >= Len(hdr) /\ Slice(b, 1, Len(hdr)) = hdr
          THEN [ok |-> TRUE,
                data |-> [i \in 1..(Len(b) - Len(hdr)) |-> Byte(b[Len(hdr) + i])]]
          ELSE [ok |-> FALSE, data |-> <<>>]

\* decrypt: data[:nonceLen] panics on a string shorter than the nonce
decrypt(ct, pw) ==
    IF Len(ct) < NonceLen THEN [data |-> <<>>, err |-> "panic"]
    ELSE LET o == Open(pw, Slice(ct, 1, NonceLen), Slice(ct, NonceLen + 1, Len(ct)))
         IN  IF o.ok THEN [data |-> o.data, err |-> "nil"]
             ELSE [data |-> <<>>, err |-> "cannotdecrypt"]

\* GetBytes, after read returned r and, if that was no error, decrypt
\* returned d: the data and the error it returns
GetResult(r, d) ==
    [data |-> IF r.err = "nil" /\ d.err = "nil" THEN d.data ELSE <<>>,
     err |-> IF r.err = "nil" THEN d.err ELSE r.err]

\* GetBytes, after read returned r
Decrypted(r, pw) == GetResult(r, decrypt(r.data, pw))

\* Filestore.getKey: the storage path of a key, a keyed hash of (password, key)
getKey(key, pw) == <<pw, key>>

\* (mutant) Exists knows os.ErrNotExist only
Exists_osOnly(err) == ~(err = "notexist")

\* Exists: false only for an error known to say the key does not exist
Exists(err) == ~(err = "notexist" \/ err = "objectnotfound")

\* the plaintext of the bootstrap record .ekv: []byte("version:1")
expectedContents == <<<<-4>>>>

\* the constructor, after read(ekvPath) returned r: the error of the check
\* of the bootstrap record, "nil" if there is nothing to check
ekvCheck(r, pw) ==
    IF r.err = "notexist" THEN "nil"
    ELSE IF r.err # "nil" THEN r.err
    ELSE IF r.isnil THEN "nil"
    ELSE IF decrypt(r.data, pw).err # "nil" THEN decrypt(r.data, pw).err
    ELSE IF decrypt(r.data, pw).data # expectedContents THEN "baddecryption"
    ELSE "nil"

\* (mutant) the constructor writes the bootstrap record without checking
\* the one it finds
NewGenericFilestoreWithNonceGenerator_noCheck(slots, pw, n) ==
    write(slots, encrypt(expectedContents, pw, n))

\* NewGenericFilestoreWithNonceGenerator(storage, basedir, password, csprng):
\* slots are the slot files of .ekv, n is what the csprng delivers; the slot
\* files it leaves and the error it returns
NewGenericFilestoreWithNonceGenerator(slots, pw, n) ==
    IF ekvCheck(read(slots), pw) # "nil"
      THEN [slots |-> slots, err |-> ekvCheck(read(slots), pw)]
      ELSE write(slots, encrypt(expectedContents, pw, n))

(***************************************************************************)
(* State.                                                                  *)
(***************************************************************************)
VARIABLES
    cslots,     \* codec alone: the two slot files of one record
    cres,       \* codec alone: the last call, its argument and its result
    disk,       \* the store's directory: storage path -> the two slot files
    sres,       \* one caller: the last Filestore call and its result
    last,       \* one caller: key -> the payload of the last completed SetBytes
    store,      \* threads: the store they share, "file" or "mem"
    fmu,        \* Filestore.RWMutex, the lock of the lock table
    keyLocks,   \* Filestore.keyLocks: storage path -> lock, or NoLock
    mmu,        \* Memstore.mux
    mstore,     \* Memstore.store: key -> payload, or Absent
    pc,         \* thread -> where it is in its call
    loc,        \* thread -> the arguments and locals of its call
    committed,  \* key -> what the last writer that released the key left
    fatal       \* the runtime has stopped the process

codecVars == <<cslots, cres>>

callerVars == <<sres, last>>

threadVars == <<store, fmu, keyLocks, mmu, mstore, pc, loc, committed, fatal>>

vars == <<cslots, cres, disk, sres, last, store, fmu, keyLocks, mmu, mstore, pc,
          loc, committed, fatal>>

\* the threads that call the store at the same time
NThreads == 2

Threads == 1..NThreads

\* the keys callers use, in their global order
NKeys == 2

Keys == 1..NKeys

\* the passwords; the store was opened with Password
MaxPassword == 2

Password == CHOOSE p \in 1..MaxPassword : \A q \in 1..MaxPassword : p <= q

Paths == {getKey(k, Password) : k \in Keys}

\* what the csprng may deliver
MaxNonce == 0

Nonces == 0..MaxNonce

\* no value: the key is not in the store
Absent == <<<<-8>>>>

EmptyDisk == [p \in Paths |-> <<NoFile, NoFile>>]

(***************************************************************************)
(* sync.RWMutex.  w is the thread that has taken the writers' mutex and    *)
(* announced itself (0 for none), x says that it holds the lock, r are the *)
(* readers that hold it, q the readers that arrived after a writer         *)
(* announced itself and wait for its Unlock.                               *)
(***************************************************************************)
FreeMu == [w |-> 0, x |-> FALSE, r |-> {}, q |-> {}]

NoLock == [w |-> -1, x |-> FALSE, r |-> {}, q |-> {}]

\* (mutant) Lock returns without taking the lock
LockBegin_noHold(m, t) == m

\* Lock, up to the wait for the readers that hold the lock
LockBegin(m, t) == [m EXCEPT !.w = t, !.x = (m.r = {})]

\* Lock, the readers have left
LockEnd(m) == [m EXCEPT !.x = TRUE]

\* Unlock: the readers that waited are let in
Unlock(m) == [w |-> 0, x |-> FALSE, r |-> m.r \cup m.q, q |-> {}]

\* (mutant) RLock lets the reader in beside a writer
RLockBegin_noWait(m, t) == [m EXCEPT !.r = @ \cup {t}]

\* RLock: at once, or queued behind the writer that announced itself
RLockBegin(m, t) == IF m.w = 0 THEN [m EXCEPT !.r = @ \cup {t}]
                    ELSE [m EXCEPT !.q = @ \cup {t}]

RUnlock(m, t) == [m EXCEPT !.r = @ \ {t}]

(***************************************************************************)
(* The threads.                                                            *)
(***************************************************************************)
\* an Operable: has says that the transaction was extended to the key
NoOper == [has |-> FALSE, closed |-> FALSE, data |-> <<>>, exists |-> FALSE,
           existed |-> FALSE, op |-> "readOp", snap |-> Absent]

\* the locals of a thread that is in no call
Idle == [kind |-> "none", key |-> 0, data |-> <<>>, viaW |-> FALSE, exp |-> Absent,
         want |-> <<>>, i |-> 0, held |-> <<>>, groups |-> <<>>,
         opers |-> [k \in Keys |-> NoOper], cur |-> 0, ret |-> "none",
         steps |-> 0, call |-> 0, opres |-> "none", pre |-> EmptyDisk, ordered |-> TRUE, closed |-> FALSE,
         tgt |-> 0, buf |-> <<>>, ct |-> <<>>, res |-> "nil", out |-> <<>>,
         flusherr |-> "nil"]

\* the payloads of the threads: a list with one flag for each thread
Zeros == [i \in Threads |-> Byte(0)]

Ones == [i \in Threads |-> Byte(1)]

Mark(list, t) == [list EXCEPT ![t] = Byte(1)]

(***************************************************************************)
(* The codec alone: calls of write, read and deleteFiles on one record,    *)
(* one at a time, and writes that stop part-way (a crash).                 *)
(***************************************************************************)
ByteVals == {0, 1}

RECURSIVE SeqsUpTo(_, _)
SeqsUpTo(S, n) == IF n = 0 THEN {<<>>}
                  ELSE LET shorter == SeqsUpTo(S, n - 1)
                       IN  shorter \cup {Append(s, x) : s \in shorter, x \in S}

\* the payloads handed to the codec, the empty one included
Payloads == SeqsUpTo({Byte(b) : b \in ByteVals}, MaxPayload)

NoCall == [op |-> "none", arg |-> <<>>, k |-> 0, err |-> "nil", data |-> <<>>,
           isnil |-> TRUE, before |-> [data |-> <<>>, isnil |-> TRUE, err |-> "notexist"]]

CodecInit == /\ cslots = <<NoFile, NoFile>>
             /\ cres = NoCall
             /\ disk = EmptyDisk
             /\ sres = [op |-> "none", key |-> 0, data |-> <<>>, err |-> "nil"]
             /\ last = [k \in Keys |-> Absent]
             /\ store = "file"
             /\ fmu = FreeMu
             /\ keyLocks = [p \in Paths |-> NoLock]
             /\ mmu = FreeMu
             /\ mstore = [k \in Keys |-> Absent]
             /\ pc = [t \in Threads |-> "done"]
             /\ loc = [t \in Threads |-> Idle]
             /\ committed = [k \in Keys |-> Absent]
             /\ fatal = FALSE

\* write(path, data) runs to its end
CWrite(data) ==
    LET w == write(cslots, data)
    IN  /\ cslots' = w.slots
        /\ cres' = [NoCall EXCEPT !.op = "write", !.arg = data, !.err = w.err,
                                  !.before = read(cslots)]
        /\ UNCHANGED <<disk, callerVars, threadVars>>

\* write(path, data) stops after createFile and the first k bytes of the
\* contents have reached the target slot
CWriteCrash(data, k) ==
    LET n        == WriteTarget(cslots)
        contents == WriteContents(cslots, data)
    IN  /\ Len(data) # 0
        /\ k < Len(contents)
        /\ cslots' = WriteBytes(createFile(cslots, n), n, contents, k)
        /\ cres' = [NoCall EXCEPT !.op = "crash", !.arg = data, !.k = k,
                                  !.before = read(cslots)]
        /\ UNCHANGED <<disk, callerVars, threadVars>>

\* read(path)
CRead ==
    LET r == read(cslots)
    IN  /\ cres' = [NoCall EXCEPT !.op = "read", !.err = r.err, !.data = r.data,
                                  !.isnil = r.isnil, !.before = r]
        /\ UNCHANGED <<cslots, disk, callerVars, threadVars>>

\* deleteFiles(path) runs to its end
CDelete ==
    /\ cslots' = deleteFiles(cslots)
    /\ cres' = [NoCall EXCEPT !.op = "delete", !.before = read(cslots)]
    /\ UNCHANGED <<disk, callerVars, threadVars>>

CodecNext ==
    \/ \E data \in Payloads : CWrite(data)
    \/ \E data \in Payloads, k \in 0..(5 + MaxPayload + SumLen) : CWriteCrash(data, k)
    \/ CRead
    \/ CDelete

SpecCodec == CodecInit /\ [][CodecNext]_vars

(***************************************************************************)
(* The codec with deletes that stop part-way (SpecCrash): deleteFiles      *)
(* stops inside deleteFile of one of the two slot files.  The calls also   *)
(* include getFileOrder and readContents on their own, and the read and    *)
(* decrypt of GetBytes.                                                    *)
(***************************************************************************)
\* what io.ReadFull(csprng, buf) delivers to deleteFile: the first byte is
\* a (a generation, or a byte that is none), the second is b, the others
\* are 0
RandomFirst == {0, 3}

RandomSecond == 0..1

\* the longest payload written in the runs with interrupted deletes
MaxCrashPayload == 1

CrashPayloads == SeqsUpTo({Byte(b) : b \in ByteVals}, MaxCrashPayload)

RandomBytes(len, a, b) ==
    [i \in 1..len |-> Byte(IF i = 1 THEN a ELSE IF i = 2 THEN b ELSE 0)]

\* deleteFile of an existing slot file stops after portableOS.Create
\* (stage 1, the file is empty), after f.Write(buf) (stage 2, the file holds
\* random bytes of its former size) or after portableOS.Remove (stage 3)
deleteFileCrash(slots, n, stage, a, b) ==
    IF stage = 1 THEN [slots EXCEPT ![n] = <<>>]
    ELSE IF stage = 2 THEN [slots EXCEPT ![n] = RandomBytes(Len(slots[n]), a, b)]
    ELSE deleteFile(slots, n)

\* deleteFiles stops in deleteFile of slot n: the first slot is gone when
\* it stops in the second
deleteFilesCrash(slots, n, stage, a, b) ==
    IF n = 1 THEN deleteFileCrash(slots, 1, stage, a, b)
    ELSE deleteFileCrash(deleteFile(slots, 1), 2, stage, a, b)

\* the number of the point where deleteFiles stopped, 1..5
CrashPoint(n, stage) == 3 * (n - 1) + stage

\* deleteFiles(path) stops in deleteFile of slot n, which exists; after the
\* Remove of the second slot nothing but the flush of the directory is left;
\* the random bytes matter at stage 2 only
CDeleteCrash(n, stage, a, b) ==
    /\ cslots[n] # NoFile
    /\ ~(n = 2 /\ stage = 3)
    /\ stage # 2 => (a = 0 /\ b = 0)
    /\ cslots' = deleteFilesCrash(cslots, n, stage, a, b)
    /\ cres' = [NoCall EXCEPT !.op = "delcrash", !.k = CrashPoint(n, stage),
                              !.before = read(cslots)]
    /\ UNCHANGED <<disk, callerVars, threadVars>>

\* getFileOrder(path1, path2): arg holds the numbers of the newest and the
\* oldest slot
CGetFileOrder ==
    LET ord == getFileOrder(cslots[1], cslots[2])
    IN  /\ cres' = [NoCall EXCEPT !.op = "getFileOrder", !.err = ord.err,
                                  !.arg = <<ord.newest, ord.oldest>>]
        /\ UNCHANGED <<cslots, disk, callerVars, threadVars>>

\* readContents(f) of slot n, which opens and has a first byte
CReadContents(n) ==
    LET rc == readContents(Slot(cslots, n))
    IN  /\ OpenErr(Slot(cslots, n)) = "nil"
        /\ cres' = [NoCall EXCEPT !.op = "readContents", !.k = n, !.err = rc.err,
                                  !.data = rc.data, !.isnil = ~rc.ok]
        /\ UNCHANGED <<cslots, disk, callerVars, threadVars>>

\* Filestore.GetBytes of the record, under password pw: read, then decrypt
CGetBytes(pw) ==
    LET g == Decrypted(read(cslots), pw)
    IN  /\ cres' = [NoCall EXCEPT !.op = "GetBytes", !.k = pw, !.err = g.err,
                                  !.data = g.data]
        /\ UNCHANGED <<cslots, disk, callerVars, threadVars>>

CrashNext ==
    \/ \E data \in CrashPayloads : CWrite(data)
    \/ \E data \in CrashPayloads, k \in 0..(5 + MaxCrashPayload + SumLen) :
         CWriteCrash(data, k)
    \/ CRead
    \/ CDelete
    \/ \E n \in {1, 2}, stage \in 1..3, a \in RandomFirst, b \in RandomSecond :
         CDeleteCrash(n, stage, a, b)
    \/ CGetFileOrder
    \/ \E n \in {1, 2} : CReadContents(n)
    \/ \E pw \in 1..MaxPassword : CGetBytes(pw)

SpecCrash == CodecInit /\ [][CrashNext]_vars

(***************************************************************************)
(* The functions alone: one call of compareModMonCntr, or of encrypt and   *)
(* then decrypt, on arguments of the caller's choice (SpecPure).           *)
(***************************************************************************)
\* the largest value of a byte
MaxByte == 255

\* compareModMonCntr(t1, t2)
PCompare(t1, t2) ==
    /\ cres.op = "none"
    /\ cres' = [NoCall EXCEPT !.op = "compareModMonCntr", !.arg = <<t1, t2>>,
                              !.k = compareModMonCntr(t1, t2)]
    /\ UNCHANGED <<cslots, disk, callerVars, threadVars>>

\* decrypt(encrypt(data, pw1, csprng), pw2), the csprng delivering n
PCrypt(data, pw1, pw2, n) ==
    LET d == decrypt(encrypt(data, pw1, n), pw2)
    IN  /\ cres.op = "none"
        /\ cres' = [NoCall EXCEPT !.op = "decrypt", !.arg = <<data, pw1, pw2, n>>,
                                  !.data = d.data, !.err = d.err]
        /\ UNCHANGED <<cslots, disk, callerVars, threadVars>>

\* the payload lengths whose length field is computed: the ends of the
\* ranges of one, two, three and four bytes
Lengths == {1, 2, 255, 256, 65535, 65536, 16777215, 16777216, 16777217,
            2147483647}

\* write computes the four bytes it stores at offsets 1..4 for len(data) = n
PSize(n) ==
    /\ cres.op = "none"
    /\ cres' = [NoCall EXCEPT !.op = "size", !.k = n, !.arg = SizeField(n)]
    /\ UNCHANGED <<cslots, disk, callerVars, threadVars>>

\* one call, and nothing after it
PureNext ==
    \/ /\ cres.op = "none"
       /\ \E t1 \in 0..MaxByte, t2 \in 0..MaxByte : PCompare(t1, t2)
    \/ /\ cres.op = "none"
       /\ \E data \in Payloads, pw1 \in 1..MaxPassword, pw2 \in 1..MaxPassword,
             n \in ByteVals : PCrypt(data, pw1, pw2, n)
    \/ /\ cres.op = "none"
       /\ \E n \in Lengths : PSize(n)

SpecPure == CodecInit /\ [][PureNext]_vars

(***************************************************************************)
(* One caller: the constructor, then SetBytes, GetBytes and Delete of the  *)
(* Filestore, each call running to its end before the next (SpecStore).    *)
(* cslots are the slot files of the bootstrap record .ekv.                 *)
(***************************************************************************)
\* the payloads the caller stores, the empty one included
MaxData == 1

PlainData == SeqsUpTo({Byte(b) : b \in ByteVals}, MaxData)

\* the keys the single caller uses
CallerKeys == {1}

StoreInit == /\ cslots = <<NoFile, NoFile>>
             /\ cres = NoCall
             /\ disk = EmptyDisk
             /\ sres = [op |-> "none", key |-> 0, data |-> <<>>, err |-> "nil"]
             /\ last = [k \in Keys |-> Absent]
             /\ store = "file"
             /\ fmu = FreeMu
             /\ keyLocks = [p \in Paths |-> NoLock]
             /\ mmu = FreeMu
             /\ mstore = [k \in Keys |-> Absent]
             /\ pc = [t \in Threads |-> "done"]
             /\ loc = [t \in Threads |-> Idle]
             /\ committed = [k \in Keys |-> Absent]
             /\ fatal = FALSE

\* The directory is opened by its owner, with Password, before anyone else
\* tries: the constructor has returned a Filestore, and callers use it.
Opened == cslots # <<NoFile, NoFile>>

\* NewFilestore(basedir, pw), the csprng delivering n
SOpen(pw, n) ==
    LET o == NewGenericFilestoreWithNonceGenerator(cslots, pw, n)
    IN  /\ pw = Password \/ Opened
        /\ cslots' = o.slots
        /\ sres' = [op |-> "open", key |-> 0, data |-> <<>>, err |-> o.err,
                    pw |-> pw]
        /\ UNCHANGED <<cres, disk, last, threadVars>>

\* SetBytes, after write returned w
SSet(key, data, w) ==
    /\ disk' = [disk EXCEPT ![getKey(key, Password)] = w.slots]
    /\ sres' = [op |-> "set", key |-> key, data |-> data, err |-> w.err]
    /\ last' = IF w.err = "nil" THEN [last EXCEPT ![key] = data] ELSE last

\* Filestore.SetBytes(key, data), the csprng delivering n
SSetBytes(key, data, n) ==
    /\ Opened
    /\ SSet(key, data, write(disk[getKey(key, Password)], encrypt(data, Password, n)))
    /\ UNCHANGED <<codecVars, threadVars>>

\* GetBytes returns g
SGot(key, g) == sres' = [op |-> "get", key |-> key, data |-> g.data, err |-> g.err]

\* Filestore.GetBytes(key)
SGetBytes(key) ==
    /\ Opened
    /\ SGot(key, Decrypted(read(disk[getKey(key, Password)]), Password))
    /\ UNCHANGED <<codecVars, disk, last, threadVars>>

\* Filestore.Delete(key)
SDelete(key) ==
    LET path == getKey(key, Password)
    IN  /\ Opened
        /\ disk' = [disk EXCEPT ![path] = deleteFiles(disk[path])]
        /\ sres' = [op |-> "delete", key |-> key, data |-> <<>>, err |-> "nil",
                    had |-> disk[path] # <<NoFile, NoFile>>]
        /\ last' = [last EXCEPT ![key] = Absent]
        /\ UNCHANGED <<codecVars, threadVars>>

StoreNext ==
    \/ \E pw \in 1..MaxPassword, n \in Nonces : SOpen(pw, n)
    \/ \E key \in CallerKeys, data \in PlainData, n \in Nonces : SSetBytes(key, data, n)
    \/ \E key \in CallerKeys : SGetBytes(key)
    \/ \E key \in CallerKeys : SDelete(key)

SpecStore == StoreInit /\ [][StoreNext]_vars

(***************************************************************************)
(* Threads that call one store at the same time, each one call (Spec).     *)
(* First the Filestore's calls on one key: SetBytes, GetBytes and Delete.  *)
(***************************************************************************)
\* the slot files of a key that was set once, to a list of zeros
ZeroRecord == write(<<NoFile, NoFile>>, encrypt(Zeros, Password, 0)).slots

\* A store that has been in use: it holds the first n keys, and the process
\* has operated on all of them but the last since it opened the store, so
\* that the lock table has their locks.
Init == /\ cslots = <<NoFile, NoFile>>
        /\ cres = NoCall
        /\ sres = [op |-> "none", key |-> 0, data |-> <<>>, err |-> "nil"]
        /\ last = [k \in Keys |-> Absent]
        /\ store \in {"file", "mem"}
        /\ \E n \in 0..NKeys :
             /\ committed = [k \in Keys |-> IF k <= n THEN Zeros ELSE Absent]
             /\ disk = [p \in Paths |->
                          IF store = "file" /\ \E k \in 1..n : p = getKey(k, Password)
                            THEN ZeroRecord ELSE <<NoFile, NoFile>>]
             /\ mstore = [k \in Keys |->
                            IF store = "mem" /\ k <= n THEN Zeros ELSE Absent]
             /\ keyLocks = [p \in Paths |->
                              IF store = "file"
                                 /\ \E k \in 1..(n - 1) : p = getKey(k, Password)
                                THEN FreeMu ELSE NoLock]
        /\ fmu = FreeMu
        /\ mmu = FreeMu
        /\ pc = [t \in Threads |-> "idle"]
        /\ loc = [t \in Threads |-> Idle]
        /\ fatal = FALSE

Path(t) == getKey(loc[t].key, Password)

Goto(t, label) == pc' = [pc EXCEPT ![t] = label]

\* Filestore.SetBytes(key, data) is called
StartSet(t, key) ==
    /\ pc[t] = "idle" /\ store = "file" /\ ~fatal
    /\ loc' = [loc EXCEPT ![t] = [Idle EXCEPT !.kind = "set", !.key = key,
                                              !.data = Mark(Zeros, t)]]
    /\ Goto(t, "sl_rlock")
    /\ UNCHANGED <<codecVars, callerVars, disk, store, fmu, keyLocks, mmu, mstore,
                   committed, fatal>>

\* Filestore.GetBytes(key) is called
StartGet(t, key) ==
    /\ pc[t] = "idle" /\ store = "file" /\ ~fatal
    /\ loc' = [loc EXCEPT ![t] = [Idle EXCEPT !.kind = "get", !.key = key]]
    /\ Goto(t, "sl_rlock")
    /\ UNCHANGED <<codecVars, callerVars, disk, store, fmu, keyLocks, mmu, mstore,
                   committed, fatal>>

\* Filestore.Delete(key) is called
StartDelete(t, key) ==
    /\ pc[t] = "idle" /\ store = "file" /\ ~fatal
    /\ loc' = [loc EXCEPT ![t] = [Idle EXCEPT !.kind = "del", !.key = key]]
    /\ Goto(t, "sl_rlock")
    /\ UNCHANGED <<codecVars, callerVars, disk, store, fmu, keyLocks, mmu, mstore,
                   committed, fatal>>

\* (mutant) f.RUnlock() comes before the lock that was found is locked
TableLookup_unlocked(t, m) ==
    LET ok == keyLocks[Path(t)] # NoLock
    IN  /\ fmu' = RUnlock(m, t)
        /\ Goto(t, IF ok THEN "sl_klock" ELSE "sl_flock")

\* takeWriteLock, takeReadLock: after f.RLock() the table is looked up; with
\* no lock for the key the thread does f.RUnlock() and goes for f.Lock()
TableLookup(t, m) ==
    LET ok == keyLocks[Path(t)] # NoLock
    IN  /\ fmu' = IF ok THEN m ELSE RUnlock(m, t)
        /\ Goto(t, IF ok THEN "sl_klock" ELSE "sl_flock")

\* takeWriteLock, takeReadLock: f.RLock()
TableRLock(t) ==
    /\ pc[t] = "sl_rlock" /\ ~fatal
    /\ IF fmu.w = 0 THEN TableLookup(t, RLockBegin(fmu, t))
       ELSE fmu' = RLockBegin(fmu, t) /\ Goto(t, "sl_rwait")
    /\ UNCHANGED <<codecVars, callerVars, disk, store, keyLocks, mmu, mstore, loc,
                   committed, fatal>>

\* f.RLock() returns to a reader that had to wait
TableRAdmit(t) ==
    /\ pc[t] = "sl_rwait" /\ ~fatal
    /\ t \in fmu.r
    /\ TableLookup(t, fmu)
    /\ UNCHANGED <<codecVars, callerVars, disk, store, keyLocks, mmu, mstore, loc,
                   committed, fatal>>

\* (mutant) a new lock is stored for the path even if it has one
WithLock_fresh(table, p) == [table EXCEPT ![p] = FreeMu]

\* the table with a lock for the path, a new one if there was none
WithLock(table, p) == IF table[p] = NoLock THEN [table EXCEPT ![p] = FreeMu] ELSE table

\* takeWriteLock, takeReadLock: under f.Lock() the table is looked up again
\* and a lock is inserted if there is still none
TableInsert(t) ==
    /\ keyLocks' = WithLock(keyLocks, Path(t))
    /\ loc' = [loc EXCEPT ![t].viaW = TRUE]
    /\ Goto(t, "sl_klock")

\* takeWriteLock, takeReadLock: f.Lock()
TableLock(t) ==
    /\ pc[t] = "sl_flock" /\ ~fatal
    /\ fmu.w = 0
    /\ fmu' = LockBegin(fmu, t)
    /\ IF fmu.r = {} THEN TableInsert(t)
       ELSE Goto(t, "sl_fwait") /\ UNCHANGED <<keyLocks, loc>>
    /\ UNCHANGED <<codecVars, callerVars, disk, store, mmu, mstore, committed, fatal>>

\* f.Lock() returns to a writer that had to wait for readers
TableLockEnd(t) ==
    /\ pc[t] = "sl_fwait" /\ ~fatal
    /\ fmu.w = t /\ fmu.r = {}
    /\ fmu' = LockEnd(fmu)
    /\ TableInsert(t)
    /\ UNCHANGED <<codecVars, callerVars, disk, store, mmu, mstore, committed, fatal>>

\* the table lock is given back: f.RUnlock(), or f.Unlock() after an insert
ReleaseTable(t) == IF loc[t].viaW THEN Unlock(fmu) ELSE RUnlock(fmu, t)

\* where the call goes once it holds the lock of its key
FirstIo(kind) == IF kind = "set" THEN "io_create"
                 ELSE IF kind = "get" THEN "io_read" ELSE "io_del1"

\* the thread holds the lock of its key: it gives the table lock back
KeyLocked(t) ==
    /\ fmu' = ReleaseTable(t)
    /\ loc' = [loc EXCEPT ![t].exp = committed[loc[t].key]]
    /\ Goto(t, FirstIo(loc[t].kind))

\* takeWriteLock: lck.Lock(); takeReadLock: lck.RLock()
KeyLock(t) ==
    /\ pc[t] = "sl_klock" /\ ~fatal
    /\ LET m      == keyLocks[Path(t)]
           reader == loc[t].kind = "get"
       IN  /\ IF reader THEN TRUE ELSE m.w = 0
           /\ keyLocks' = [keyLocks EXCEPT ![Path(t)] =
                             IF reader THEN RLockBegin(m, t) ELSE LockBegin(m, t)]
           /\ IF (IF reader THEN m.w = 0 ELSE m.r = {}) THEN KeyLocked(t)
              ELSE Goto(t, "sl_kwait") /\ UNCHANGED <<fmu, loc>>
    /\ UNCHANGED <<codecVars, callerVars, disk, store, mmu, mstore, committed, fatal>>

\* lck.Lock() or lck.RLock() returns to a thread that had to wait
KeyLockEnd(t) ==
    /\ pc[t] = "sl_kwait" /\ ~fatal
    /\ LET m      == keyLocks[Path(t)]
           reader == loc[t].kind = "get"
       IN  /\ IF reader THEN t \in m.r ELSE m.w = t /\ m.r = {}
           /\ keyLocks' = [keyLocks EXCEPT ![Path(t)] =
                             IF reader THEN m ELSE LockEnd(m)]
    /\ KeyLocked(t)
    /\ UNCHANGED <<codecVars, callerVars, disk, store, mmu, mstore, committed, fatal>>

\* write, up to createFile: the target slot is chosen and emptied; the
\* csprng delivered n to encrypt
WriteCreated(slots, ct, tgt) ==
    IF Len(ct) = 0 THEN [tgt |-> 0, buf |-> <<>>, ct |-> <<>>, slots |-> slots]
    ELSE [tgt |-> tgt, buf |-> WriteContents(slots, ct), ct |-> ct,
          slots |-> createFile(slots, tgt)]

\* encrypt, then write up to createFile
WriteStart(slots, data, n) ==
    WriteCreated(slots, encrypt(data, Password, n), WriteTarget(slots))

\* the thread is between createFile and fileToWrite.Write
Written(t, p, w) ==
    /\ loc' = [loc EXCEPT ![t].tgt = w.tgt, ![t].buf = w.buf, ![t].ct = w.ct]
    /\ disk' = [disk EXCEPT ![p] = w.slots]

\* encrypt, and write up to createFile
BeginWrite(t, p, data, n) == Written(t, p, WriteStart(disk[p], data, n))

\* write, from fileToWrite.Write on: the slots, and the error
EndWrite(t, p) ==
    IF loc[t].tgt = 0 THEN [slots |-> disk[p], err |-> "invalidsize"]
    ELSE WriteChecked(WriteBytes(disk[p], loc[t].tgt, loc[t].buf, Len(loc[t].buf)),
                      loc[t].tgt, loc[t].ct)

\* SetBytes: write, up to createFile
IoCreate(t, n) ==
    /\ pc[t] = "io_create" /\ ~fatal
    /\ BeginWrite(t, Path(t), loc[t].data, n)
    /\ Goto(t, "io_write")
    /\ UNCHANGED <<codecVars, callerVars, store, fmu, keyLocks, mmu, mstore,
                   committed, fatal>>

\* SetBytes: what write leaves and returns
IoWritten(t, w) ==
    /\ disk' = [disk EXCEPT ![Path(t)] = w.slots]
    /\ loc' = [loc EXCEPT ![t].res = w.err, ![t].buf = <<>>, ![t].ct = <<>>]
    /\ committed' = IF w.err = "nil"
                      THEN [committed EXCEPT ![loc[t].key] = loc[t].data]
                      ELSE committed

\* SetBytes: the rest of write, then unlock()
IoWrite(t) ==
    /\ pc[t] = "io_write" /\ ~fatal
    /\ IoWritten(t, EndWrite(t, Path(t)))
    /\ keyLocks' = [keyLocks EXCEPT ![Path(t)] = Unlock(@)]
    /\ Goto(t, "done")
    /\ UNCHANGED <<codecVars, callerVars, store, fmu, mmu, mstore, fatal>>

\* Delete: deleteFiles, the first slot
IoDelete1(t) ==
    /\ pc[t] = "io_del1" /\ ~fatal
    /\ disk' = [disk EXCEPT ![Path(t)] = deleteFile(@, 1)]
    /\ Goto(t, "io_del2")
    /\ UNCHANGED <<codecVars, callerVars, store, fmu, keyLocks, mmu, mstore, loc,
                   committed, fatal>>

\* Delete: deleteFiles, the second slot, then unlock()
IoDelete2(t) ==
    /\ pc[t] = "io_del2" /\ ~fatal
    /\ disk' = [disk EXCEPT ![Path(t)] = deleteFile(@, 2)]
    /\ committed' = [committed EXCEPT ![loc[t].key] = Absent]
    /\ keyLocks' = [keyLocks EXCEPT ![Path(t)] = Unlock(@)]
    /\ Goto(t, "done")
    /\ UNCHANGED <<codecVars, callerVars, store, fmu, mmu, mstore, loc, fatal>>

\* GetBytes returns g
IoGot(t, g) == loc' = [loc EXCEPT ![t].res = g.err,
                                  ![t].out = IF g.err = "nil" THEN g.data ELSE Absent]

\* GetBytes: read, unlock(), decrypt
IoRead(t) ==
    /\ pc[t] = "io_read" /\ ~fatal
    /\ IoGot(t, Decrypted(read(disk[Path(t)]), Password))
    /\ keyLocks' = [keyLocks EXCEPT ![Path(t)] = RUnlock(@, t)]
    /\ Goto(t, "done")
    /\ UNCHANGED <<codecVars, callerVars, disk, store, fmu, mmu, mstore, committed,
                   fatal>>

(***************************************************************************)
(* Filestore.Transaction.                                                  *)
(***************************************************************************)
\* the calls the operation functions make, all together, at most
MaxCalls == 2

\* the lists of distinct keys
RECURSIVE KeyLists(_)
KeyLists(S) == {<<>>} \cup UNION {{<<k>> \o l : l \in KeyLists(S \ {k})} : k \in S}

Range(seq) == {seq[i] : i \in 1..Len(seq)}

\* the keys the transaction was extended to
TxKeys(l) == {k \in Keys : l.opers[k].has}

\* the list goes up in the order of the keys, from above the keys taken before
Ascending(keys, taken) ==
    /\ \A i \in 1..Len(keys), j \in 1..Len(keys) : i < j => keys[i] < keys[j]
    /\ \A i \in 1..Len(keys), k \in taken : k < keys[i]

\* Filestore.Transaction(op, keys...) is called: newExtendable, e.Extend(keys)
StartTxn(t, keys) ==
    /\ pc[t] = "idle" /\ store = "file" /\ ~fatal
    /\ loc' = [loc EXCEPT ![t] = [Idle EXCEPT !.kind = "txn", !.want = keys, !.i = 1,
                                              !.ordered = Ascending(keys, {})]]
    /\ Goto(t, "tl_flock")
    /\ UNCHANGED <<codecVars, callerVars, disk, store, fmu, keyLocks, mmu, mstore,
                   committed, fatal>>

\* takeTransactionLocks: f.Lock()
TxTableLock(t) ==
    /\ pc[t] = "tl_flock" /\ ~fatal
    /\ fmu.w = 0
    /\ fmu' = LockBegin(fmu, t)
    /\ Goto(t, IF fmu.r = {} THEN "tl_klock" ELSE "tl_fwait")
    /\ UNCHANGED <<codecVars, callerVars, disk, store, keyLocks, mmu, mstore, loc,
                   committed, fatal>>

\* f.Lock() returns to a transaction that had to wait for readers
TxTableLockEnd(t) ==
    /\ pc[t] = "tl_fwait" /\ ~fatal
    /\ fmu.w = t /\ fmu.r = {}
    /\ fmu' = LockEnd(fmu)
    /\ Goto(t, "tl_klock")
    /\ UNCHANGED <<codecVars, callerVars, disk, store, keyLocks, mmu, mstore, loc,
                   committed, fatal>>

\* the transaction holds the lock of the key it was after: on to the next
\* key, or f.Unlock() after the last
TxKeyLocked(t) ==
    /\ loc' = [loc EXCEPT ![t].held = Append(@, getKey(loc[t].want[loc[t].i], Password)),
                          ![t].i = @ + 1]
    /\ IF loc[t].i = Len(loc[t].want)
         THEN fmu' = Unlock(fmu) /\ Goto(t, "ext_read")
         ELSE Goto(t, "tl_klock") /\ UNCHANGED fmu

\* takeTransactionLocks: the lock of the next key is looked up, inserted if
\* there is none, and locked: lck.Lock(), under f.Lock()
TxKeyLock(t) ==
    /\ pc[t] = "tl_klock" /\ ~fatal
    /\ LET p     == getKey(loc[t].want[loc[t].i], Password)
           table == WithLock(keyLocks, p)
       IN  /\ table[p].w = 0
           /\ keyLocks' = [table EXCEPT ![p] = LockBegin(@, t)]
           /\ IF table[p].r = {} THEN TxKeyLocked(t)
              ELSE Goto(t, "tl_kwait") /\ UNCHANGED <<fmu, loc>>
    /\ UNCHANGED <<codecVars, callerVars, disk, store, mmu, mstore, committed, fatal>>

\* lck.Lock() returns to a transaction that had to wait for readers
TxKeyLockEnd(t) ==
    /\ pc[t] = "tl_kwait" /\ ~fatal
    /\ LET p == getKey(loc[t].want[loc[t].i], Password)
       IN  /\ keyLocks[p].w = t /\ keyLocks[p].r = {}
           /\ keyLocks' = [keyLocks EXCEPT ![p] = LockEnd(@)]
    /\ TxKeyLocked(t)
    /\ UNCHANGED <<codecVars, callerVars, disk, store, mmu, mstore, committed, fatal>>

\* what the transaction leaves stored under the key when it gives the lock
\* back
Left(l, key, before) ==
    LET o == l.opers[key]
    IN  IF ~(o.has /\ o.closed) THEN before
        ELSE IF o.op = "writeOp" THEN o.data
        ELSE IF o.op = "deleteOp" /\ o.existed THEN Absent
        ELSE before

\* (mutant) e.close() gives the locks back and leaves e.closed as it is
close_notClosed(t, l, res) ==
    /\ loc' = [loc EXCEPT ![t] = [l EXCEPT !.held = <<>>, !.res = res]]
    /\ keyLocks' = [p \in Paths |-> IF p \in Range(l.held) THEN Unlock(keyLocks[p])
                                    ELSE keyLocks[p]]
    /\ committed' = [k \in Keys |-> Left(l, k, committed[k])]
    /\ Goto(t, "done")

\* (mutant) addUnlock drops the unlock functions it had: e.close() gives
\* back the locks of the last takeTransactionLocks only, here the last lock
close_lastOnly(t, l, res) ==
    /\ loc' = [loc EXCEPT ![t] = [l EXCEPT !.closed = TRUE, !.held = <<>>, !.res = res]]
    /\ keyLocks' = [p \in Paths |-> IF l.held # <<>> /\ p = l.held[Len(l.held)]
                                      THEN Unlock(keyLocks[p])
                                    ELSE keyLocks[p]]
    /\ committed' = [k \in Keys |-> Left(l, k, committed[k])]
    /\ Goto(t, "done")

\* Transaction returns res, and the deferred e.close(): the transaction is
\* closed and gives back every lock it took.  l is the thread as the return
\* finds it.
close(t, l, res) ==
    /\ loc' = [loc EXCEPT ![t] = [l EXCEPT !.closed = TRUE, !.held = <<>>, !.res = res]]
    /\ keyLocks' = [p \in Paths |-> IF p \in Range(l.held) THEN Unlock(keyLocks[p])
                                    ELSE keyLocks[p]]
    /\ committed' = [k \in Keys |-> Left(l, k, committed[k])]
    /\ Goto(t, "done")

\* Memstore.Transaction returns res: the deferred e.close(), then the
\* deferred m.mux.Unlock(), which stops the process if the mutex is not
\* locked
closeMem(t, l, res) ==
    /\ loc' = [loc EXCEPT ![t] = [l EXCEPT !.closed = TRUE, !.res = res]]
    /\ mmu' = IF mmu.w # 0 THEN Unlock(mmu) ELSE mmu
    /\ fatal' = (mmu.w = 0)
    /\ Goto(t, IF mmu.w # 0 THEN "done" ELSE "dead")

\* Transaction returns res, from either store
Return(t, l, res) ==
    IF store = "file" THEN close(t, l, res) /\ UNCHANGED <<mmu, fatal>>
    ELSE closeMem(t, l, res) /\ UNCHANGED <<keyLocks, committed>>

\* Extend, the loop that reads one key, after read returned r and, if the
\* file is there, decrypt returned d: what it stores in the Operable, or the
\* error it returns
KeyRead(r, d) ==
    IF r.err # "nil" /\ ~Exists(r.err)
      THEN [err |-> "nil", exists |-> FALSE, data |-> <<>>]
    ELSE IF r.err # "nil" THEN [err |-> r.err, exists |-> FALSE, data |-> <<>>]
    ELSE [err |-> d.err, exists |-> TRUE, data |-> d.data]

\* Extend, the loop that reads one key, after read returned r
KeyDecrypted(r) == KeyRead(r, decrypt(r.data, Password))

\* Extend, the loop that reads one key
ReadKey(key) == KeyDecrypted(read(disk[getKey(key, Password)]))

\* (mutant) Extend hands out the Operables as it made them, without the
\* data it read
newOperable_unread(rk) ==
    [has |-> TRUE, closed |-> FALSE, data |-> <<>>, exists |-> FALSE,
     existed |-> FALSE, op |-> "readOp", snap |-> Absent]

\* Extend: the Operable of a key that was read as rk has it
newOperable(rk) ==
    [has |-> TRUE, closed |-> FALSE, data |-> rk.data, exists |-> rk.exists,
     existed |-> rk.exists, op |-> "readOp",
     snap |-> IF rk.exists THEN rk.data ELSE Absent]

\* Extend returns the Operables of the new keys, read as rk has it
Extended(t, new, rk) ==
    /\ loc' = [loc EXCEPT
                 ![t].opers = [k \in Keys |-> IF k \in new THEN newOperable(rk[k])
                                              ELSE @[k]],
                 ![t].groups = Append(@, new),
                 ![t].pre = [p \in Paths |->
                               IF \E k \in new : p = getKey(k, Password) THEN disk[p]
                               ELSE @[p]],
                 ![t].want = <<>>, ![t].i = 0]
    /\ Goto(t, "op")
    /\ UNCHANGED <<keyLocks, committed>>

\* Extend, after the keys were read as rk has it: the first error ends the
\* transaction
ExtendRead(t, new, rk) ==
    IF \A k \in new : rk[k].err = "nil" THEN Extended(t, new, rk)
    ELSE \E k \in new : rk[k].err # "nil" /\ close(t, loc[t], rk[k].err)

\* Extend, after takeTransactionLocks: the keys are read into their
\* Operables
ExtRead(t) ==
    /\ pc[t] = "ext_read" /\ ~fatal
    /\ ExtendRead(t, Range(loc[t].want), [k \in Keys |-> ReadKey(k)])
    /\ UNCHANGED <<codecVars, callerVars, disk, store, fmu, mmu, mstore, fatal>>

\* operable.Get, operableMem.Get, with Exists: what a call returns
OperableGet(o) == [data |-> o.data, exists |-> o.exists]

\* operable.IsClosed, operableMem.IsClosed: what a call returns
IsClosed(o) == o.closed

\* extendable.IsClosed, extendableMem.IsClosed: what a call returns
ExtenderIsClosed(l) == l.closed

\* (mutant) Set does not test whether the Operable is closed
testClosed_notSet(o, action) == o.closed /\ action # "Set()"

\* testClosed: the call panics on a closed Operable
testClosed(o, action) == o.closed

\* the calls the operation functions of the threads have made
RECURSIVE CallsMade(_)
CallsMade(S) == IF S = {} THEN 0
                ELSE LET t == CHOOSE u \in S : TRUE
                     IN  loc[t].steps + CallsMade(S \ {t})

\* the operation function is running and has the Operable of the key
InOp(t, key) ==
    /\ pc[t] = "op" /\ ~fatal
    /\ loc[t].opers[key].has

\* jww.FATAL.Panicf in a call on the Operable of the key: the panic leaves
\* Transaction through its deferred calls
Panic(t, key) == Return(t, [loc[t] EXCEPT !.call = key], "panic")

\* Operable.Key(), Exists() or Get() is called by the operation function
OpRead(t, key, action) ==
    /\ InOp(t, key)
    /\ IF testClosed(loc[t].opers[key], action) THEN Panic(t, key)
       ELSE UNCHANGED <<loc, pc, keyLocks, committed, mmu, fatal>>
    /\ UNCHANGED <<codecVars, callerVars, disk, store, fmu, mstore>>

\* the list the operation function stores: what Get() gave it, or a list of
\* zeros if the key does not exist, with the flag of its thread set
NewValue(t, o) == Mark(IF o.exists THEN o.data ELSE Zeros, t)

\* Operable.Set(data) is called by the operation function
OpSet(t, key) ==
    /\ InOp(t, key)
    /\ CallsMade(Threads) < MaxCalls
    /\ IF testClosed(loc[t].opers[key], "Set()") THEN Panic(t, key)
       ELSE /\ loc' = [loc EXCEPT ![t].steps = @ + 1, ![t].call = key,
                                  ![t].opers[key].data = NewValue(t, loc[t].opers[key]),
                                  ![t].opers[key].exists = TRUE,
                                  ![t].opers[key].op = "writeOp"]
            /\ UNCHANGED <<pc, keyLocks, committed, mmu, fatal>>
    /\ UNCHANGED <<codecVars, callerVars, disk, store, fmu, mstore>>

\* (mutant) Delete sets the operation and leaves data and exists
OpDelete_keepsData(t, key) ==
    /\ InOp(t, key)
    /\ CallsMade(Threads) < MaxCalls
    /\ IF testClosed(loc[t].opers[key], "Delete()") THEN Panic(t, key)
       ELSE /\ loc' = [loc EXCEPT ![t].steps = @ + 1, ![t].call = key,
                                  ![t].opers[key].op = "deleteOp"]
            /\ UNCHANGED <<pc, keyLocks, committed, mmu, fatal>>
    /\ UNCHANGED <<codecVars, callerVars, disk, store, fmu, mstore>>

\* Operable.Delete() is called by the operation function
OpDelete(t, key) ==
    /\ InOp(t, key)
    /\ CallsMade(Threads) < MaxCalls
    /\ IF testClosed(loc[t].opers[key], "Delete()") THEN Panic(t, key)
       ELSE /\ loc' = [loc EXCEPT ![t].steps = @ + 1, ![t].call = key,
                                  ![t].opers[key].data = <<>>,
                                  ![t].opers[key].exists = FALSE,
                                  ![t].opers[key].op = "deleteOp"]
            /\ UNCHANGED <<pc, keyLocks, committed, mmu, fatal>>
    /\ UNCHANGED <<codecVars, callerVars, disk, store, fmu, mstore>>

\* operable.Flush after testClosed, up to its first storage operation, or
\* all of it when there is none: the thread, the slots of the key and where
\* the thread goes on.  back is where the caller of Flush goes on, o the
\* Operable and w what write up to createFile gives.
FlushCase(l, slots, key, back, o, w) ==
    IF o.op = "writeOp"
      THEN [l |-> [l EXCEPT !.tgt = w.tgt, !.buf = w.buf, !.ct = w.ct,
                            !.cur = key, !.ret = back],
            slots |-> w.slots, pc |-> "fl_write"]
    ELSE IF o.op = "deleteOp" /\ o.existed
      THEN [l |-> [l EXCEPT !.cur = key, !.ret = back],
            slots |-> deleteFile(slots, 1), pc |-> "fl_del2"]
    ELSE [l |-> [l EXCEPT !.opers[key].closed = TRUE], slots |-> slots, pc |-> back]

\* operable.Flush after testClosed, up to its first storage operation
FlushStart(l, slots, key, n, back) ==
    FlushCase(l, slots, key, back, l.opers[key],
              WriteStart(slots, l.opers[key].data, n))

\* the thread has begun to flush the Operable of the key
Flushing(t, key, f) ==
    /\ loc' = [loc EXCEPT ![t] = f.l]
    /\ disk' = [disk EXCEPT ![getKey(key, Password)] = f.slots]
    /\ Goto(t, f.pc)

\* Operable.Flush() is called by the operation function
OpFlush(t, key, n) ==
    /\ InOp(t, key) /\ store = "file"
    /\ CallsMade(Threads) < MaxCalls
    /\ IF testClosed(loc[t].opers[key], "Flush()")
         THEN Panic(t, key) /\ UNCHANGED disk
         ELSE /\ UNCHANGED <<mmu, fatal>>
              /\ Flushing(t, key,
                          FlushStart([loc[t] EXCEPT !.steps = @ + 1, !.call = key],
                                     disk[getKey(key, Password)], key, n, "op"))
              /\ UNCHANGED <<keyLocks, committed>>
    /\ UNCHANGED <<codecVars, callerVars, store, fmu, mstore>>

\* Extender.Extend(keys) is called by the operation function, for keys the
\* transaction does not hold yet
OpExtend(t, keys) ==
    /\ pc[t] = "op" /\ store = "file" /\ ~fatal
    /\ CallsMade(Threads) < MaxCalls
    /\ Range(keys) \cap TxKeys(loc[t]) = {}
    /\ loc' = [loc EXCEPT ![t].steps = @ + 1, ![t].call = 0,
                          ![t].want = keys, ![t].i = 1,
                          ![t].ordered = @ /\ Ascending(keys, TxKeys(loc[t]))]
    /\ Goto(t, "tl_flock")
    /\ UNCHANGED <<codecVars, callerVars, disk, store, fmu, keyLocks, mmu, mstore,
                   committed, fatal>>

\* (mutant) e.flush() runs whatever the operation function returned
OpReturn_alwaysFlush(t, err) ==
    /\ pc[t] = "op" /\ ~fatal
    /\ loc' = [loc EXCEPT ![t].call = 0, ![t].opres = err]
    /\ Goto(t, "flush")
    /\ UNCHANGED <<codecVars, callerVars, disk, store, fmu, mstore, keyLocks,
                   committed, mmu, fatal>>

\* the operation function returns: nil, and e.flush() is next, or an error
\* of its own, which Transaction returns
OpReturn(t, err) ==
    /\ pc[t] = "op" /\ ~fatal
    /\ IF err = "nil"
         THEN /\ loc' = [loc EXCEPT ![t].call = 0, ![t].opres = err]
              /\ Goto(t, "flush")
              /\ UNCHANGED <<keyLocks, committed, mmu, fatal>>
         ELSE Return(t, [loc[t] EXCEPT !.call = 0, !.opres = err], err)
    /\ UNCHANGED <<codecVars, callerVars, disk, store, fmu, mstore>>

\* (mutant) e.flush goes through the first map only
Pending_first(l) ==
    IF l.groups = <<>> THEN {} ELSE {k \in l.groups[1] : ~l.opers[k].closed}

\* e.flush: the Operables of the first map that has one open
Pending(l) ==
    LET open(i) == {k \in l.groups[i] : ~l.opers[k].closed}
        left    == {i \in 1..Len(l.groups) : open(i) # {}}
    IN  IF left = {} THEN {}
        ELSE open(CHOOSE i \in left : \A j \in left : i <= j)

\* e.flush: oper.Flush() on the next open Operable
FlushNext(t, key, n) ==
    /\ pc[t] = "flush" /\ store = "file" /\ ~fatal
    /\ key \in Pending(loc[t])
    /\ Flushing(t, key,
                FlushStart(loc[t], disk[getKey(key, Password)], key, n, "flush"))
    /\ UNCHANGED <<codecVars, callerVars, store, fmu, keyLocks, mmu, mstore,
                   committed, fatal>>

\* e.flush is through: Transaction returns nil
FlushDone(t) ==
    /\ pc[t] = "flush" /\ store = "file" /\ ~fatal
    /\ Pending(loc[t]) = {}
    /\ close(t, loc[t], "nil")
    /\ UNCHANGED <<codecVars, callerVars, disk, store, fmu, mmu, mstore, fatal>>

\* operable.Flush, writeOp: the rest of write; the Operable ends closed.  An
\* error makes e.flush panic.
Flushed(t, p, w, l) ==
    /\ disk' = [disk EXCEPT ![p] = w.slots]
    /\ IF w.err # "nil" /\ loc[t].ret = "flush" THEN close(t, l, "panic")
       ELSE /\ loc' = [loc EXCEPT ![t] = l]
            /\ Goto(t, loc[t].ret)
            /\ UNCHANGED <<keyLocks, committed>>

\* operable.Flush, writeOp: the rest of write
FlWrite(t) ==
    /\ pc[t] = "fl_write" /\ ~fatal
    /\ Flushed(t, getKey(loc[t].cur, Password),
               EndWrite(t, getKey(loc[t].cur, Password)),
               [loc[t] EXCEPT !.opers[loc[t].cur].closed = TRUE,
                              !.buf = <<>>, !.ct = <<>>, !.tgt = 0])
    /\ UNCHANGED <<codecVars, callerVars, store, fmu, mmu, mstore, fatal>>

\* operable.Flush, deleteOp: deleteFiles, the second slot; the Operable ends
\* closed
FlDelete2(t) ==
    /\ pc[t] = "fl_del2" /\ ~fatal
    /\ disk' = [disk EXCEPT ![getKey(loc[t].cur, Password)] = deleteFile(@, 2)]
    /\ loc' = [loc EXCEPT ![t].opers[loc[t].cur].closed = TRUE]
    /\ Goto(t, loc[t].ret)
    /\ UNCHANGED <<codecVars, callerVars, store, fmu, keyLocks, mmu, mstore,
                   committed, fatal>>

\* e.flush: oper.Flush() on the next open Operable returns an error of the
\* storage (createFile in write, or the first Remove in deleteFiles, fails
\* and leaves the files as they are).  Flush's deferred function closes the
\* Operable, e.flush calls jww.FATAL.Panicf, and the deferred e.close() of
\* Transaction runs while the panic unwinds.  flusherr keeps what Flush
\* returned.
FlushFail(t, key) ==
    /\ pc[t] = "flush" /\ store = "file" /\ ~fatal
    /\ key \in Pending(loc[t])
    /\ \/ loc[t].opers[key].op = "writeOp"
       \/ loc[t].opers[key].op = "deleteOp" /\ loc[t].opers[key].existed
    /\ loc' = [loc EXCEPT ![t] = [loc[t] EXCEPT !.opers[key].closed = TRUE,
                                                !.cur = key, !.ret = "flush",
                                                !.flusherr = "storage",
                                                !.closed = TRUE, !.held = <<>>,
                                                !.res = "panic"]]
    /\ keyLocks' = [p \in Paths |-> IF p \in Range(loc[t].held)
                                      THEN Unlock(keyLocks[p]) ELSE keyLocks[p]]
    /\ committed' = [k \in Keys |-> IF k = key THEN committed[k]
                                    ELSE Left(loc[t], k, committed[k])]
    /\ Goto(t, "done")
    /\ UNCHANGED <<codecVars, callerVars, disk, store, fmu, mmu, mstore, fatal>>

(***************************************************************************)
(* The Memstore: every call locks m.mux.                                   *)
(***************************************************************************)
\* Memstore.SetBytes, GetBytes or Delete is called
MemCall(t, kind, key) ==
    /\ pc[t] = "idle" /\ store = "mem" /\ ~fatal
    /\ loc' = [loc EXCEPT ![t] = [Idle EXCEPT !.kind = kind, !.key = key,
                                              !.data = Mark(Zeros, t)]]
    /\ Goto(t, "m_lock")
    /\ UNCHANGED <<codecVars, callerVars, disk, store, fmu, keyLocks, mmu, mstore,
                   committed, fatal>>

\* Memstore.Transaction(op, keys...) is called
MemTxn(t, keys) ==
    /\ pc[t] = "idle" /\ store = "mem" /\ ~fatal
    /\ loc' = [loc EXCEPT ![t] = [Idle EXCEPT !.kind = "txn", !.want = keys]]
    /\ Goto(t, "m_lock")
    /\ UNCHANGED <<codecVars, callerVars, disk, store, fmu, keyLocks, mmu, mstore,
                   committed, fatal>>

\* extendableMem.Extend: the Operables of the keys, read from m.store
MemExtended(l, keys) ==
    [l EXCEPT !.opers = [k \in Keys |->
                           IF k \in Range(keys)
                             THEN newOperable([exists |-> mstore[k] # Absent,
                                               data |-> IF mstore[k] # Absent
                                                          THEN mstore[k] ELSE <<>>])
                             ELSE @[k]],
              !.groups = Append(@, Range(keys)),
              !.want = <<>>]

\* m.mux.Lock() returns; a transaction goes on to e.Extend(keys)
MemLock(t) ==
    /\ pc[t] = "m_lock" /\ ~fatal
    /\ mmu.w = 0
    /\ mmu' = LockEnd(LockBegin(mmu, t))
    /\ IF loc[t].kind = "txn"
         THEN /\ loc' = [loc EXCEPT ![t] = MemExtended(loc[t], loc[t].want)]
              /\ Goto(t, "op")
         ELSE Goto(t, "m_op") /\ UNCHANGED loc
    /\ UNCHANGED <<codecVars, callerVars, disk, store, fmu, keyLocks, mstore,
                   committed, fatal>>

\* SetBytes, GetBytes or Delete under the mutex, then the deferred
\* m.mux.Unlock()
MemOp(t) ==
    /\ pc[t] = "m_op" /\ ~fatal
    /\ mstore' = IF loc[t].kind = "set" THEN [mstore EXCEPT ![loc[t].key] = loc[t].data]
                 ELSE IF loc[t].kind = "del" THEN [mstore EXCEPT ![loc[t].key] = Absent]
                 ELSE mstore
    /\ loc' = [loc EXCEPT ![t].out = IF loc[t].kind = "get" THEN mstore[loc[t].key]
                                     ELSE @,
                          ![t].res = IF loc[t].kind = "get" /\ mstore[loc[t].key] = Absent
                                       THEN "objectnotfound" ELSE "nil"]
    /\ mmu' = IF mmu.w # 0 THEN Unlock(mmu) ELSE mmu
    /\ fatal' = (mmu.w = 0)
    /\ Goto(t, IF mmu.w # 0 THEN "done" ELSE "dead")
    /\ UNCHANGED <<codecVars, callerVars, disk, store, fmu, keyLocks, committed>>

\* Extender.Extend(keys) is called by the operation function, for keys the
\* transaction does not have yet
MemOpExtend(t, keys) ==
    /\ pc[t] = "op" /\ store = "mem" /\ ~fatal
    /\ CallsMade(Threads) < MaxCalls
    /\ Range(keys) \cap TxKeys(loc[t]) = {}
    /\ loc' = [loc EXCEPT ![t] = MemExtended([loc[t] EXCEPT !.steps = @ + 1,
                                                            !.call = 0], keys)]
    /\ UNCHANGED <<codecVars, callerVars, disk, store, fmu, keyLocks, mmu, mstore,
                   pc, committed, fatal>>

\* operableMem.Flush after testClosed: the staged operation goes to m.store,
\* and the deferred function closes the Operable and calls m.mux.Unlock()
MemFlushed(t, l, key, back) ==
    /\ mstore' = IF l.opers[key].op = "writeOp"
                   THEN [mstore EXCEPT ![key] = l.opers[key].data]
                 ELSE IF l.opers[key].op = "deleteOp" THEN [mstore EXCEPT ![key] = Absent]
                 ELSE mstore
    /\ loc' = [loc EXCEPT ![t] = [l EXCEPT !.opers[key].closed = TRUE]]
    /\ mmu' = IF mmu.w # 0 THEN Unlock(mmu) ELSE mmu
    /\ fatal' = (mmu.w = 0)
    /\ Goto(t, IF mmu.w # 0 THEN back ELSE "dead")

\* Operable.Flush() is called by the operation function
MemOpFlush(t, key) ==
    /\ InOp(t, key) /\ store = "mem"
    /\ CallsMade(Threads) < MaxCalls
    /\ IF testClosed(loc[t].opers[key], "Flush()")
         THEN Panic(t, key) /\ UNCHANGED mstore
         ELSE MemFlushed(t, [loc[t] EXCEPT !.steps = @ + 1, !.call = key], key, "op")
              /\ UNCHANGED <<keyLocks, committed>>
    /\ UNCHANGED <<codecVars, callerVars, disk, store, fmu>>

\* extendableMem.flush: oper.Flush() on the next open Operable
MemFlushNext(t, key) ==
    /\ pc[t] = "flush" /\ store = "mem" /\ ~fatal
    /\ key \in Pending(loc[t])
    /\ MemFlushed(t, loc[t], key, "flush")
    /\ UNCHANGED <<codecVars, callerVars, disk, store, fmu, keyLocks, committed>>

\* extendableMem.flush is through: Transaction returns nil
MemFlushDone(t) ==
    /\ pc[t] = "flush" /\ store = "mem" /\ ~fatal
    /\ Pending(loc[t]) = {}
    /\ closeMem(t, loc[t], "nil")
    /\ UNCHANGED <<codecVars, callerVars, disk, store, fmu, keyLocks, mstore,
                   committed>>

Next ==
    \/ \E t \in Threads, key \in Keys : StartSet(t, key)
    \/ \E t \in Threads, key \in Keys : StartGet(t, key)
    \/ \E t \in Threads, key \in Keys : StartDelete(t, key)
    \/ \E t \in Threads : TableRLock(t)
    \/ \E t \in Threads : TableRAdmit(t)
    \/ \E t \in Threads : TableLock(t)
    \/ \E t \in Threads : TableLockEnd(t)
    \/ \E t \in Threads : KeyLock(t)
    \/ \E t \in Threads : KeyLockEnd(t)
    \/ \E t \in Threads, n \in Nonces : IoCreate(t, n)
    \/ \E t \in Threads : IoWrite(t)
    \/ \E t \in Threads : IoDelete1(t)
    \/ \E t \in Threads : IoDelete2(t)
    \/ \E t \in Threads : IoRead(t)
    \/ \E t \in Threads, keys \in KeyLists(Keys) \ {<<>>} : StartTxn(t, keys)
    \/ \E t \in Threads : TxTableLock(t)
    \/ \E t \in Threads : TxTableLockEnd(t)
    \/ \E t \in Threads : TxKeyLock(t)
    \/ \E t \in Threads : TxKeyLockEnd(t)
    \/ \E t \in Threads : ExtRead(t)
    \/ \E t \in Threads, key \in Keys, action \in {"Key()", "Exists()", "Get()"} :
          OpRead(t, key, action)
    \/ \E t \in Threads, key \in Keys : OpSet(t, key)
    \/ \E t \in Threads, key \in Keys : OpDelete(t, key)
    \/ \E t \in Threads, key \in Keys, n \in Nonces : OpFlush(t, key, n)
    \/ \E t \in Threads, keys \in KeyLists(Keys) \ {<<>>} : OpExtend(t, keys)
    \/ \E t \in Threads, err \in {"nil", "operr"} : OpReturn(t, err)
    \/ \E t \in Threads, key \in Keys, n \in Nonces : FlushNext(t, key, n)
    \/ \E t \in Threads : FlushDone(t)
    \/ \E t \in Threads : FlWrite(t)
    \/ \E t \in Threads : FlDelete2(t)
    \/ \E t \in Threads, kind \in {"set", "get", "del"}, key \in Keys :
          MemCall(t, kind, key)
    \/ \E t \in Threads, keys \in KeyLists(Keys) \ {<<>>} : MemTxn(t, keys)
    \/ \E t \in Threads : MemLock(t)
    \/ \E t \in Threads : MemOp(t)
    \/ \E t \in Threads, keys \in KeyLists(Keys) \ {<<>>} : MemOpExtend(t, keys)
    \/ \E t \in Threads, key \in Keys : MemOpFlush(t, key)
    \/ \E t \in Threads, key \in Keys : MemFlushNext(t, key)
    \/ \E t \in Threads : MemFlushDone(t)

Spec == Init /\ [][Next]_vars

(***************************************************************************)
(* The same threads with operation functions that keep the Extender and    *)
(* call it after Transaction has returned.                                 *)
(***************************************************************************)
\* Extender.Extend(keys) is called after Transaction returned: with e.closed
\* set, jww.FATAL.Panicf before anything else; otherwise Extend goes on to
\* the locks (Filestore) or to the map (Memstore)
LateExtend(t, keys) ==
    /\ pc[t] = "done" /\ loc[t].kind = "txn" /\ ~fatal
    /\ IF ExtenderIsClosed(loc[t])
         THEN /\ loc' = [loc EXCEPT ![t].res = "panic"]
              /\ Goto(t, "late_panic")
         ELSE IF store = "file"
           THEN /\ loc' = [loc EXCEPT ![t].want = keys, ![t].i = 1]
                /\ Goto(t, "tl_flock")
         ELSE /\ loc' = [loc EXCEPT ![t] = MemExtended(loc[t], keys)]
              /\ Goto(t, "late_done")
    /\ UNCHANGED <<codecVars, callerVars, disk, store, fmu, keyLocks, mmu, mstore,
                   committed, fatal>>

LateNext ==
    \/ Next
    \/ \E t \in Threads, keys \in KeyLists(Keys) \ {<<>>} : LateExtend(t, keys)

SpecLate == Init /\ [][LateNext]_vars

(***************************************************************************)
(* The threads on a Filestore with operation functions that never call     *)
(* Extend, and a scheduler that lets every thread that can take a step     *)
(* take one (SpecLive).                                                    *)
(***************************************************************************)
\* a step of thread t that takes a lock, of the lock table or of a key: the
\* steps that can have to wait
Acquire(t) ==
    \/ TableRLock(t)
    \/ TableRAdmit(t)
    \/ TableLock(t)
    \/ TableLockEnd(t)
    \/ KeyLock(t)
    \/ KeyLockEnd(t)
    \/ TxTableLock(t)
    \/ TxTableLockEnd(t)
    \/ TxKeyLock(t)
    \/ TxKeyLockEnd(t)

\* a step of thread t under the locks it has: the codec calls, the calls of
\* the operation function and its return, the flush and the return
Run(t) ==
    \/ \E n \in Nonces : IoCreate(t, n)
    \/ IoWrite(t)
    \/ IoDelete1(t)
    \/ IoDelete2(t)
    \/ IoRead(t)
    \/ ExtRead(t)
    \/ \E key \in Keys, action \in {"Key()", "Exists()", "Get()"} : OpRead(t, key, action)
    \/ \E key \in Keys : OpSet(t, key)
    \/ \E key \in Keys : OpDelete(t, key)
    \/ \E key \in Keys, n \in Nonces : OpFlush(t, key, n)
    \/ \E err \in {"nil", "operr"} : OpReturn(t, err)
    \/ \E key \in Keys, n \in Nonces : FlushNext(t, key, n)
    \/ FlushDone(t)
    \/ FlWrite(t)
    \/ FlDelete2(t)

\* where a thread is when a step of Run is its next
RunPcs == {"io_create", "io_write", "io_del1", "io_del2", "io_read", "ext_read",
           "op", "flush", "fl_write", "fl_del2"}

LiveInit == Init /\ store = "file"

LiveNext ==
    \/ \E t \in Threads, key \in Keys : StartSet(t, key)
    \/ \E t \in Threads, key \in Keys : StartGet(t, key)
    \/ \E t \in Threads, key \in Keys : StartDelete(t, key)
    \/ \E t \in Threads, keys \in KeyLists(Keys) \ {<<>>} : StartTxn(t, keys)
    \/ \E t \in Threads : Acquire(t)
    \/ \E t \in Threads : Run(t)

\* the scheduler: a lock that stays free is taken by a thread that asks for
\* it, and code that does not wait runs on.  The second is weak fairness of
\* Run(t), which is enabled exactly where pc[t] is in RunPcs.
Scheduling(t) ==
    /\ WF_vars(Acquire(t))
    /\ []<>(pc[t] \notin RunPcs) \/ []<><<Run(t)>>_vars

SpecLive == LiveInit /\ [][LiveNext]_vars /\ \A t \in Threads : Scheduling(t)

(***************************************************************************)
(* One thread alone on a Filestore, with key lists of every kind: a key    *)
(* may be named twice, and Extend may name a key the transaction holds     *)
(* (SpecAlone).                                                            *)
(***************************************************************************)
\* the longest key list of the thread that is alone
MaxKeyList == 2

\* the key lists, a key named twice included
AnyKeyLists == SeqsUpTo(Keys, MaxKeyList) \ {<<>>}

\* the thread that runs
Alone == CHOOSE t \in Threads : \A u \in Threads : t <= u

\* Extender.Extend(keys) is called by the operation function, for any keys:
\* Extend goes to takeTransactionLocks with the list as it is
OpExtendAny(t, keys) ==
    /\ pc[t] = "op" /\ store = "file" /\ ~fatal
    /\ CallsMade(Threads) < MaxCalls
    /\ loc' = [loc EXCEPT ![t].steps = @ + 1, ![t].call = 0,
                          ![t].want = keys, ![t].i = 1,
                          ![t].ordered = @ /\ Ascending(keys, TxKeys(loc[t]))]
    /\ Goto(t, "tl_flock")
    /\ UNCHANGED <<codecVars, callerVars, disk, store, fmu, keyLocks, mmu, mstore,
                   committed, fatal>>

\* a step that takes a lock, for a thread that never finds one taken by
\* another
AcquireAlone(t) ==
    \/ TableRLock(t)
    \/ TableLock(t)
    \/ KeyLock(t)
    \/ TxTableLock(t)
    \/ TxKeyLock(t)

AloneNext ==
    \/ \E key \in Keys : StartSet(Alone, key)
    \/ \E key \in Keys : StartGet(Alone, key)
    \/ \E key \in Keys : StartDelete(Alone, key)
    \/ \E keys \in AnyKeyLists : StartTxn(Alone, keys)
    \/ AcquireAlone(Alone)
    \/ Run(Alone)
    \/ \E keys \in AnyKeyLists : OpExtendAny(Alone, keys)

\* the scheduler, as in SpecLive
SpecAlone ==
    /\ LiveInit /\ [][AloneNext]_vars
    /\ WF_vars(AcquireAlone(Alone))
    /\ []<>(pc[Alone] \notin RunPcs) \/ []<><<Run(Alone)>>_vars

(***************************************************************************)
(* The same threads on a storage whose operations can fail.                *)
(***************************************************************************)
FaultyNext ==
    \/ Next
    \/ \E t \in Threads, key \in Keys : FlushFail(t, key)

\* a password the store was not opened with
WrongPassword == CHOOSE p \in 1..MaxPassword : p # Password

\* the slot files of a record that decrypt refuses under the store's
\* password
ForeignRecord == write(<<NoFile, NoFile>>, encrypt(Zeros, WrongPassword, 0)).slots

\* A store that has been in use, as in Init, in which the files of the
\* first key may hold a record that cannot be decrypted.
FaultyInit ==
    /\ cslots = <<NoFile, NoFile>>
    /\ cres = NoCall
    /\ sres = [op |-> "none", key |-> 0, data |-> <<>>, err |-> "nil"]
    /\ last = [k \in Keys |-> Absent]
    /\ store \in {"file", "mem"}
    /\ \E n \in 0..NKeys, foreign \in BOOLEAN :
         /\ foreign => (store = "file" /\ n >= 1)
         /\ committed = [k \in Keys |-> IF k <= n THEN Zeros ELSE Absent]
         /\ disk = [p \in Paths |->
                      IF foreign /\ p = getKey(1, Password) THEN ForeignRecord
                      ELSE IF store = "file" /\ \E k \in 1..n : p = getKey(k, Password)
                        THEN ZeroRecord ELSE <<NoFile, NoFile>>]
         /\ mstore = [k \in Keys |->
                        IF store = "mem" /\ k <= n THEN Zeros ELSE Absent]
         /\ keyLocks = [p \in Paths |->
                          IF store = "file"
                             /\ \E k \in 1..(n - 1) : p = getKey(k, Password)
                            THEN FreeMu ELSE NoLock]
    /\ fmu = FreeMu
    /\ mmu = FreeMu
    /\ pc = [t \in Threads |-> "idle"]
    /\ loc = [t \in Threads |-> Idle]
    /\ fatal = FALSE

SpecFaulty == FaultyInit /\ [][FaultyNext]_vars

(***************************************************************************)
(* Claims about the codec alone (SpecCodec).                               *)
(***************************************************************************)
\* C9: after a write to a record that read as value v stopped part-way (the
\* target slot created, or any proper prefix of the new contents written),
\* read returns exactly v, and a complete write of any w succeeds and makes
\* read return w.
C9_CrashSlotInvariant ==
    (cres.op = "crash" /\ cres.before.err = "nil" /\ ~cres.before.isnil)
    => /\ read(cslots) = cres.before
       /\ \A w \in Payloads \ {<<>>} :
            LET r == write(cslots, w)
            IN  /\ r.err = "nil"
                /\ read(r.slots) = [data |-> w, isnil |-> FALSE, err |-> "nil"]

\* a write stopped inside the payload or the checksum of the second slot
\* while the first held the value
C9_Witness ==
    /\ cres.op = "crash" /\ cres.before.err = "nil" /\ ~cres.before.isnil
    /\ cres.k > 5
    /\ cslots[1] # NoFile /\ cslots[2] # NoFile
    /\ readContents(cslots[1]).ok /\ ~readContents(cslots[2]).ok

\* C10: write with an empty payload returns the invalid-size error and leaves
\* both slot files as they were, whatever they held.
C10_ZeroLengthRejected ==
    [][(cres'.op = "write" /\ cres'.arg = <<>>)
       => (cres'.err = "invalidsize" /\ cslots' = cslots)]_vars

\* an empty write was rejected on a record that holds two slot files
C10_Witness ==
    /\ cres.op = "write" /\ cres.arg = <<>> /\ cres.err = "invalidsize"
    /\ cslots[1] # NoFile /\ cslots[2] # NoFile

\* the slot file holds a record that validates
ValidSlot(slots, n) == Len(Slot(slots, n)) >= 1 /\ readContents(Slot(slots, n)).ok

\* C28: a call of write, complete or stopped after createFile or after any
\* part of the contents, leaves the slot whose record it read and validated
\* byte for byte as it was and changes at most the other slot; with no slot
\* that validates the slot it changes is the first.
C28_DoubleBuffering ==
    [][cres'.op \in {"write", "crash"}
       => LET v == WriteRead(cslots).wasRead
          IN  /\ v # 0 => /\ ValidSlot(cslots, v)
                          /\ cslots'[v] = cslots[v]
              /\ v = 0 => /\ ~ValidSlot(cslots, 1) /\ ~ValidSlot(cslots, 2)
                          /\ cslots'[2] = cslots[2]
              /\ cslots'[1] = cslots[1] \/ cslots'[2] = cslots[2]
              /\ (ValidSlot(cslots, 1) /\ ~ValidSlot(cslots, 2)) => v = 1
              /\ (ValidSlot(cslots, 2) /\ ~ValidSlot(cslots, 1)) => v = 2]_vars

\* a write to a record with a valid slot and a slot left by an interrupted
\* write stopped part-way: one slot validates, the other holds the part
C28_Witness ==
    /\ cres.op = "crash" /\ ~cres.before.isnil /\ cres.k >= 1
    /\ \E n \in {1, 2} : /\ ValidSlot(cslots, n)
                          /\ Slot(cslots, 3 - n) # NoFile
                          /\ ~ValidSlot(cslots, 3 - n)

\* the generation of a slot file: its first byte
Generation(slots, n) == FirstByte(Slot(slots, n))

\* the generation after g
NextGeneration(g) == (g + 1) % 3

\* C29, as amended: after a complete write to a record of which a slot was
\* read and validated, the slot written has the generation after that of
\* the slot read; after a complete write to a record of which no slot was
\* readable, the slot written, the first, has generation 0.
C29_NextGenerationFromZero ==
    (cres.op = "write" /\ cres.err = "nil")
    => LET ord == getFileOrder(cslots[1], cslots[2])
       IN  IF cres.before.isnil THEN Generation(cslots, 1) = 0
           ELSE /\ ord.newest # 0 /\ ord.oldest # 0
                /\ Generation(cslots, ord.newest)
                     = NextGeneration(Generation(cslots, ord.oldest))

\* a complete write to a record of which the first slot held the remains
\* of an interrupted write and the second did not exist
C29_Witness ==
    /\ cres.op = "write" /\ cres.err = "nil"
    /\ cres.before.isnil /\ cres.before.err # "notexist"
    /\ ValidSlot(cslots, 1) /\ Slot(cslots, 2) = NoFile

\* C29: after a complete write to a record of which a slot was read and
\* validated, the slot written has the generation after that of the slot
\* read; after a complete write to a record of which no slot was readable,
\* the slot written, the first, has generation 1.
C29_NextGeneration ==
    (cres.op = "write" /\ cres.err = "nil")
    => LET ord == getFileOrder(cslots[1], cslots[2])
       IN  IF cres.before.isnil THEN Generation(cslots, 1) = 1
           ELSE /\ ord.newest # 0 /\ ord.oldest # 0
                /\ Generation(cslots, ord.newest)
                     = NextGeneration(Generation(cslots, ord.oldest))

\* both slot files hold records that validate
BothValid(slots) == ValidSlot(slots, 1) /\ ValidSlot(slots, 2)

\* the generations follow one another in the cycle 0, 1, 2, either way round
Consecutive(g1, g2) ==
    /\ g1 \in 0..2 /\ g2 \in 0..2
    /\ g1 = NextGeneration(g2) \/ g2 = NextGeneration(g1)

\* C30: in every state reached from an absent record by complete writes,
\* complete deletes and interrupted writes, two valid slots have generations
\* that differ and follow one another in the cycle; two valid slots come
\* about by a complete write only; a complete write leaves the slot it
\* wrote valid and selected as the newest, and read returns its payload; and
\* an interrupted write leaves what read returns as it was.
C30_GenerationInvariant ==
    [][/\ BothValid(cslots')
          => /\ Generation(cslots', 1) # Generation(cslots', 2)
             /\ Consecutive(Generation(cslots', 1), Generation(cslots', 2))
             /\ compareModMonCntr(Generation(cslots', 1), Generation(cslots', 2)) # 0
       /\ (BothValid(cslots') /\ cslots' # cslots)
          => (cres'.op = "write" /\ cres'.err = "nil")
       /\ (cres'.op = "write" /\ cres'.err = "nil")
          => /\ ValidSlot(cslots', WriteTarget(cslots))
             /\ getFileOrder(cslots'[1], cslots'[2]).newest = WriteTarget(cslots)
             /\ read(cslots') = [data |-> cres'.arg, isnil |-> FALSE, err |-> "nil"]
       /\ (cres'.op = "crash" /\ ~read(cslots).isnil)
          => read(cslots') = read(cslots)]_vars

\* a complete write has wrapped the generation: the first slot, written
\* last, has generation 0, the second has generation 2, both are valid
C30_Witness ==
    /\ cres.op = "write" /\ cres.err = "nil" /\ BothValid(cslots)
    /\ Generation(cslots, 1) = 0 /\ Generation(cslots, 2) = 2
    /\ getFileOrder(cslots[1], cslots[2]).newest = 1

(***************************************************************************)
(* Claims about the codec with interrupted deletes (SpecCrash).            *)
(***************************************************************************)
\* the slot file opens and its generation byte can be read
Readable(slots, n) == OpenErr(Slot(slots, n)) = "nil"

\* C31, as amended: getFileOrder returns an error only when neither slot
\* file can be opened and have its generation byte read, or when both can
\* and the two bytes are not neighbours in the cycle 0, 1, 2; with one
\* readable slot that slot is the newest and there is no oldest; with two
\* whose generations are neighbours the newest is the one whose generation
\* is cyclically higher and the oldest is the other.
C31_NewestOrError ==
    cres.op = "getFileOrder"
    => LET r1 == Readable(cslots, 1)
           r2 == Readable(cslots, 2)
           g1 == Generation(cslots, 1)
           g2 == Generation(cslots, 2)
       IN  /\ (cres.err # "nil")
                <=> ((~r1 /\ ~r2) \/ (r1 /\ r2 /\ ~Consecutive(g1, g2)))
           /\ (cres.err # "nil") => cres.arg = <<0, 0>>
           /\ (r1 /\ ~r2) => cres.arg = <<1, 0>>
           /\ (r2 /\ ~r1) => cres.arg = <<2, 0>>
           /\ (r1 /\ r2 /\ Consecutive(g1, g2))
                => cres.arg = IF g1 = NextGeneration(g2) THEN <<1, 2>> ELSE <<2, 1>>

\* getFileOrder found two readable slot files with the same generation, one
\* of them left by an interrupted delete, and returned the error
C31_Witness ==
    /\ cres.op = "getFileOrder" /\ cres.err = "invalidval"
    /\ Readable(cslots, 1) /\ Readable(cslots, 2)
    /\ Generation(cslots, 1) = Generation(cslots, 2)
    /\ ValidSlot(cslots, 1) # ValidSlot(cslots, 2)

\* C31: getFileOrder returns an error only when neither slot file can be
\* opened and have its generation byte read; when at least one can, it
\* returns a newest slot: the only readable one, or with two readable slots
\* the one whose generation is cyclically higher.
C31_NewestSelection ==
    cres.op = "getFileOrder"
    => LET r1 == Readable(cslots, 1)
           r2 == Readable(cslots, 2)
           newest == cres.arg[1]
       IN  /\ (cres.err # "nil") => (~r1 /\ ~r2)
           /\ (r1 \/ r2) => newest # 0
           /\ (r1 /\ ~r2) => newest = 1
           /\ (r2 /\ ~r1) => newest = 2
           /\ (r1 /\ r2 /\ newest # 0)
                => Generation(cslots, newest)
                     = NextGeneration(Generation(cslots, 3 - newest))

\* read fell back: the newest slot named by getFileOrder does not validate,
\* the oldest does, and read returned the payload of the oldest
ReadFallback ==
    LET ord == getFileOrder(cslots[1], cslots[2])
    IN  (cres.op = "read" /\ ord.newest # 0 /\ ord.oldest # 0
         /\ ~ValidSlot(cslots, ord.newest) /\ ValidSlot(cslots, ord.oldest))
        => /\ cres.err = "nil" /\ ~cres.isnil
           /\ cres.data = readContents(Slot(cslots, ord.oldest)).data

\* a slot file exists and no slot validates: read returned an error
ReadHardFailure ==
    (cres.op = "read" /\ (cslots[1] # NoFile \/ cslots[2] # NoFile)
     /\ ~ValidSlot(cslots, 1) /\ ~ValidSlot(cslots, 2))
    => cres.err # "nil"

\* read did not return a nil payload with a nil error
ReadPayloadOrError == cres.op = "read" => ~(cres.isnil /\ cres.err = "nil")

\* C32: when the newest slot fails validation and the older slot validates,
\* read returns the payload of the older slot; when a slot file exists and
\* no slot validates, read returns an error; read never returns a nil
\* payload together with a nil error.
C32_ReadFallbackOrError == ReadFallback /\ ReadHardFailure /\ ReadPayloadOrError

\* the length field of a slot file that holds all four bytes of it
LengthField(f) == Uint32LE(Slice(f, 2, 5))

\* C33: readContents on a slot whose length field is zero returns the
\* invalid-size error and no payload; on a slot that ends inside the length
\* field, the payload or the checksum it returns an error; on a slot whose
\* stored checksum is not the hash of the stored payload it returns the
\* checksum error; it returns a payload only when the length is positive,
\* the payload has that length and the checksum is the hash of the payload.
C33_SlotParsingErrors ==
    cres.op = "readContents"
    => LET f    == Slot(cslots, cres.k)
           size == LengthField(f)
           full == Len(f) >= 5 + size + SumLen
           data == Slice(f, 6, 5 + size)
           sum  == Slice(f, 6 + size, 5 + size + SumLen)
       IN  /\ (Len(f) >= 5 /\ size = 0)
                => (cres.err = "invalidsize" /\ cres.isnil)
           /\ (Len(f) < 5 \/ ~full) => (cres.err # "nil" /\ cres.isnil)
           /\ (Len(f) >= 5 /\ size > 0 /\ full /\ sum # Sum256(data))
                => (cres.err = "checksum" /\ cres.isnil)
           /\ (cres.err = "nil")
                => /\ Len(f) >= 5 /\ size > 0 /\ full /\ sum = Sum256(data)
                   /\ ~cres.isnil /\ cres.data = data

\* C35: decrypt does not panic, whatever byte string it is given, the
\* empty one and those shorter than the nonce included: GetBytes returns the
\* plaintext or an error in every state of the slot files, whether read
\* accepts or rejects them.
C35_DecryptNeverPanics ==
    cres.op = "GetBytes"
    => /\ cres.err # "panic"
       /\ read(cslots).err = "nil" => cres.err \in {"nil", "cannotdecrypt"}
       /\ read(cslots).err # "nil" => cres.err = read(cslots).err

\* deleteFiles stopped part-way on a record that read as a value
DeleteInterrupted ==
    cres.op = "delcrash" /\ cres.before.err = "nil" /\ ~cres.before.isnil

\* read returns the value the record had before the delete, or not-found
ReadsValueOrNotFound ==
    DeleteInterrupted
    => \/ read(cslots) = cres.before
       \/ read(cslots) = [data |-> <<>>, isnil |-> TRUE, err |-> "notexist"]

\* read returns no error other than not-found
ReadsNoOtherError ==
    DeleteInterrupted => read(cslots).err \in {"nil", "notexist"}

\* a complete write of any w succeeds and read then returns w
WriteAfterDelete ==
    DeleteInterrupted
    => \A w \in CrashPayloads \ {<<>>} :
         LET r == write(cslots, w)
         IN  /\ r.err = "nil"
             /\ read(r.slots) = [data |-> w, isnil |-> FALSE, err |-> "nil"]

\* C39: after deleteFiles on a record whose value is v stopped at any point
\* (a slot file emptied, overwritten with random bytes, or one removed and
\* the other not yet), read returns v or not-found, never an older value and
\* never another error, and a complete write of w makes read return w.
C39_CrashDuringDelete == ReadsValueOrNotFound /\ ReadsNoOtherError /\ WriteAfterDelete

(***************************************************************************)
(* Claims about the functions alone (SpecPure).                            *)
(***************************************************************************)
\* C11: compareModMonCntr(a, b) is 1 exactly for (1,0), (2,1), (0,2), is 2
\* exactly for (0,1), (1,2), (2,0), and is 0 for everything else, equal
\* values and values above 2 included; so for distinct a, b in 0..2 it gives
\* 1 one way round and 2 the other.
C11_GenerationComparison ==
    cres.op = "compareModMonCntr"
    => LET a == cres.arg[1]
           b == cres.arg[2]
       IN  /\ cres.k = 1 <=> <<a, b>> \in {<<1, 0>>, <<2, 1>>, <<0, 2>>}
           /\ cres.k = 2 <=> <<a, b>> \in {<<0, 1>>, <<1, 2>>, <<2, 0>>}
           /\ cres.k \in {0, 1, 2}
           /\ (a \in 0..2 /\ b \in 0..2 /\ a # b)
                => {cres.k, compareModMonCntr(b, a)} = {1, 2}

\* the counter wrapped: 0 is newer than 2
C11_Witness ==
    cres.op = "compareModMonCntr" /\ cres.arg = <<0, 2>> /\ cres.k = 1

\* C15: decrypt under the password encrypt was given returns the payload
\* and no error, for every payload that is not empty and every nonce;
\* decrypt under another password returns an error and no payload.
C15_EncryptionRoundTrip ==
    (cres.op = "decrypt" /\ cres.arg[1] # <<>>)
    => IF cres.arg[2] = cres.arg[3]
         THEN cres.err = "nil" /\ cres.data = cres.arg[1]
         ELSE cres.err = "cannotdecrypt" /\ cres.data = <<>>

\* a payload of two bytes came back under a nonce that is not zero
C15_Witness ==
    /\ cres.op = "decrypt" /\ cres.arg[2] = cres.arg[3] /\ cres.arg[4] = 1
    /\ Len(cres.arg[1]) = MaxPayload /\ cres.data = cres.arg[1]

\* binary.LittleEndian.PutUint32: byte i holds (n div 256^i) mod 256
LittleEndian(n) ==
    <<Byte(n % 256), Byte((n \div 256) % 256), Byte((n \div 65536) % 256),
      Byte((n \div 16777216) % 256)>>

\* C34: the four bytes write stores at offsets 1..4 of the slot for a
\* payload of length n are the little-endian encoding of n, and readContents
\* decodes n from them.
C34_LengthField ==
    cres.op = "size"
    => /\ cres.arg = LittleEndian(cres.k)
       /\ Uint32LE(cres.arg) = cres.k

(***************************************************************************)
(* Claims about one caller (SpecStore).                                    *)
(***************************************************************************)
\* C7: after any sequence of SetBytes calls on a key, each run to its end,
\* GetBytes returns without error exactly the payload of the last one, also
\* when the generation counter has wrapped from 2 to 0.
C7_LastWriteWins ==
    (sres.op = "get" /\ last[sres.key] # Absent)
    => (sres.err = "nil" /\ sres.data = last[sres.key])

\* a GetBytes after the counter wrapped: the newest slot carries 0, the
\* other 2
C7_Witness ==
    /\ sres.op = "get" /\ last[sres.key] # Absent /\ sres.data = last[sres.key]
    /\ LET slots == disk[getKey(sres.key, Password)]
       IN  /\ FirstByte(slots[2]) = 0 /\ FirstByte(slots[1]) = 2
           /\ decrypt(readContents(slots[1]).data, Password).data # sres.data

\* what GetBytes returns for the key when slots are its slot files and
\* value is what was last set (Absent: never set, or deleted since)
Reads(slots, value) ==
    Decrypted(read(slots), Password) =
        IF value = Absent THEN [data |-> <<>>, err |-> "notexist"]
        ELSE [data |-> value, err |-> "nil"]

\* C12: the constructor called with a password other than the one the
\* bootstrap record was written with returns an error and writes nothing,
\* neither to the bootstrap slots nor to a key's record, and the constructor
\* called with the right password afterwards succeeds.
C12_WrongPassword ==
    [][(/\ sres'.op = "open" /\ sres'.pw # Password
        /\ Decrypted(read(cslots), Password).err = "nil")
       => /\ sres'.err # "nil"
          /\ cslots' = cslots /\ disk' = disk
          /\ \A n \in Nonces :
               NewGenericFilestoreWithNonceGenerator(cslots', Password, n).err = "nil"]_vars

\* the constructor refused a wrong password for a store that holds a key
C12_Witness ==
    /\ sres.op = "open" /\ sres.pw # Password /\ sres.err = "cannotdecrypt"
    /\ last[1] # Absent
    /\ cslots[1] # NoFile /\ cslots[2] # NoFile

\* C14: every further call of the constructor with the password of the
\* store succeeds; it writes the bootstrap record into the slot that is not
\* the newest, with the next generation, and leaves the records of the keys
\* alone, so that every key still reads as the value last set.
C14_ReopenPersistence ==
    [][(sres'.op = "open" /\ sres'.pw = Password)
       => LET ord == getFileOrder(cslots[1], cslots[2])
              now == getFileOrder(cslots'[1], cslots'[2])
          IN  /\ sres'.err = "nil"
              /\ Decrypted(read(cslots'), Password) =
                     [data |-> expectedContents, err |-> "nil"]
              /\ (ord.newest # 0 /\ cslots' # cslots)
                   => /\ now.newest = 3 - ord.newest
                      /\ cslots'[ord.newest] = cslots[ord.newest]
                      /\ FirstByte(cslots'[now.newest])
                            = (FirstByte(cslots[ord.newest]) + 1) % 3
              /\ disk' = disk
              /\ \A key \in Keys : Reads(disk'[getKey(key, Password)], last[key])]_vars

\* the store was reopened, the generation of the bootstrap record wrapping
\* from 2 to 0, with a key set before
C14_Witness ==
    /\ sres.op = "open" /\ sres.pw = Password /\ sres.err = "nil"
    /\ last[1] # Absent
    /\ {FirstByte(cslots[1]), FirstByte(cslots[2])} = {0, 2}
    /\ FirstByte(cslots[getFileOrder(cslots[1], cslots[2]).newest]) = 0

\* C16: Delete returns nil and leaves no slot file of the key, and nothing
\* is changed if there was none; from then on GetBytes returns an error for
\* which Exists is false, until a SetBytes, whose payload GetBytes then
\* returns.
C16_Delete ==
    [][/\ sres'.op = "delete"
          => /\ sres'.err = "nil"
             /\ disk'[getKey(sres'.key, Password)] = <<NoFile, NoFile>>
             /\ ~sres'.had => disk' = disk
       /\ \A key \in Keys :
            /\ Reads(disk'[getKey(key, Password)], last'[key])
            /\ last'[key] = Absent
                 => ~Exists(Decrypted(read(disk'[getKey(key, Password)]),
                                      Password).err)]_vars

\* a key that had a slot file has just been deleted, in a store that was
\* opened more than once
C16_Witness ==
    /\ sres.op = "delete" /\ sres.had /\ sres.err = "nil"
    /\ disk[getKey(sres.key, Password)] = <<NoFile, NoFile>>
    /\ FirstByte(cslots[1]) # 3 /\ FirstByte(cslots[2]) # 3

(***************************************************************************)
(* Claims about threads that call a Filestore at the same time (Spec).     *)
(***************************************************************************)
\* what GetBytes would return for the key now
Stored(key) == Decrypted(read(disk[getKey(key, Password)]), Password)

\* the thread ran a transaction on the one key that returned nil, and its
\* operation function staged Set of the snapshot with its own flag set
ReadModifyWrite(t, key) ==
    /\ loc[t].kind = "txn" /\ pc[t] = "done" /\ loc[t].res = "nil"
    /\ loc[t].groups = <<{key}>>
    /\ loc[t].opers[key].op = "writeOp"
    /\ loc[t].opers[key].data =
         Mark(IF loc[t].opers[key].snap = Absent THEN Zeros
              ELSE loc[t].opers[key].snap, t)

\* C1: when every thread has run a Filestore.Transaction on the same single
\* key, each staging Set of its snapshot with its own flag set, and all have
\* returned, the stored list has the flag of every thread, whether the key
\* existed before or not.
C1_NoLostUpdate ==
    \A key \in Keys :
        (store = "file" /\ \A t \in Threads : ReadModifyWrite(t, key))
        => Stored(key) = [data |-> Ones, err |-> "nil"]

\* all threads have done so on a key that did not exist before
C1_Witness ==
    \E key \in Keys :
        /\ store = "file" /\ \A t \in Threads : ReadModifyWrite(t, key)
        /\ \E t \in Threads : loc[t].opers[key].snap = Absent
        /\ Stored(key).data = Ones

\* the thread is in a Filestore.Transaction that has read its snapshot of the
\* key and has not returned
Running(t, key) ==
    /\ store = "file" /\ loc[t].kind = "txn"
    /\ loc[t].opers[key].has
    /\ pc[t] \notin {"done", "dead"}

\* the thread is in SetBytes, GetBytes or Delete of the key, between the
\* return of takeWriteLock or takeReadLock and unlock()
Inside(t, key) ==
    /\ loc[t].kind \in {"set", "get", "del"} /\ loc[t].key = key
    /\ pc[t] \in {"io_create", "io_write", "io_del1", "io_del2", "io_read"}

\* C2: two Filestore transactions that have both read a snapshot of one key
\* are never running at the same time, and while a transaction that has read
\* its snapshot of a key is running, no SetBytes, GetBytes or Delete is at
\* work on that key.
C2_Isolation ==
    \A t \in Threads, key \in Keys : \A u \in Threads \ {t} :
        Running(t, key) => (~Running(u, key) /\ ~Inside(u, key))

\* a transaction is writing a key while another transaction waits for the
\* lock of that key
C2_Witness ==
    \E t \in Threads, key \in Keys : \E u \in Threads \ {t} :
        /\ Running(t, key) /\ pc[t] = "fl_write" /\ loc[t].cur = key
        /\ loc[u].kind = "txn" /\ pc[u] = "tl_klock"
        /\ loc[u].want[loc[u].i] = key
        /\ keyLocks[getKey(key, Password)].x

\* the threads that hold the lock of the key for writing, and those that
\* hold it for reading
Writers(key) ==
    {t \in Threads : \/ (Inside(t, key) /\ loc[t].kind # "get")
                     \/ (loc[t].kind = "txn" /\ store = "file"
                         /\ getKey(key, Password) \in Range(loc[t].held))}

Readers(key) == {t \in Threads : Inside(t, key) /\ loc[t].kind = "get"}

\* C8: for each key there is at any moment at most one writer (SetBytes,
\* Delete or a transaction that holds the key) and no reader beside a
\* writer; and every GetBytes returns what the last writer that gave the
\* lock back before the read took it has left: its payload, or not-found
\* after a Delete, never a record written in part.
C8_ReaderWriterExclusion ==
    /\ \A key \in Keys :
         /\ Cardinality(Writers(key)) <= 1
         /\ Writers(key) # {} => Readers(key) = {}
    /\ \A t \in Threads :
         (store = "file" /\ loc[t].kind = "get" /\ pc[t] = "done")
         => /\ loc[t].out = loc[t].exp
            /\ loc[t].res = IF loc[t].exp = Absent THEN "notexist" ELSE "nil"

\* a GetBytes has returned what the SetBytes of another thread wrote while
\* both were running on a key that existed before
C8_Witness ==
    \E t \in Threads : \E u \in Threads \ {t} :
        /\ store = "file" /\ loc[t].kind = "get" /\ pc[t] = "done"
        /\ loc[u].kind = "set" /\ loc[u].key = loc[t].key
        /\ loc[t].out = Mark(Zeros, u)
        /\ loc[t].pre = EmptyDisk

\* the thread has called Filestore.Transaction and has not returned
InTransaction(t) == loc[t].kind = "txn" /\ pc[t] \notin {"idle", "done", "dead"}

\* the thread is inside Lock or RLock of the table mutex or of the lock of
\* a key, and the mutex is not in a state that lets the call return
Waits(t) ==
    LET single == keyLocks[Path(t)]
        wanted == WithLock(keyLocks, getKey(loc[t].want[loc[t].i], Password))
                      [getKey(loc[t].want[loc[t].i], Password)]
    IN  \/ pc[t] = "sl_rwait" /\ t \notin fmu.r
        \/ pc[t] \in {"sl_flock", "tl_flock"} /\ fmu.w # 0
        \/ pc[t] \in {"sl_fwait", "tl_fwait"} /\ ~(fmu.w = t /\ fmu.r = {})
        \/ pc[t] = "sl_klock" /\ loc[t].kind # "get" /\ single.w # 0
        \/ pc[t] = "sl_kwait" /\ loc[t].kind = "get" /\ t \notin single.r
        \/ pc[t] = "sl_kwait" /\ loc[t].kind # "get"
              /\ ~(single.w = t /\ single.r = {})
        \/ pc[t] = "tl_klock" /\ wanted.w # 0
        \/ pc[t] = "tl_kwait" /\ ~(wanted.w = t /\ wanted.r = {})

\* C3: when every Filestore.Transaction takes its keys, those of the call
\* and then those of each Extend, in the order of the keys and none twice,
\* and every operation function returns, no deadlock is reachable: the
\* threads are never all inside lock calls that cannot return.
C3_DeadlockFree ==
    (store = "file" /\ \A t \in Threads : loc[t].ordered)
    => ~(\A t \in Threads : Waits(t))

\* C4, as stated: after the operation function returned an error,
\* Transaction has returned that error and every key of the transaction,
\* initial or extended, is stored exactly as before the call.  (No other
\* thread has called the store.)
C4_AbortRestoresEveryKey ==
    \A t \in Threads :
        (/\ store = "file" /\ loc[t].kind = "txn" /\ pc[t] = "done"
         /\ loc[t].opres = "operr"
         /\ \A u \in Threads \ {t} : pc[u] = "idle")
        => /\ loc[t].res = "operr"
           /\ \A key \in TxKeys(loc[t]) :
                disk[getKey(key, Password)] = loc[t].pre[getKey(key, Password)]

\* C4, amended: when the operation function returns an error, Transaction
\* returns that error, and every key of the transaction whose Operable the
\* operation function has not flushed itself is stored exactly as before the
\* call, whatever Set or Delete it staged.
C4_AbortLeavesUnflushedKeys ==
    [][\A t \in Threads :
         (/\ store = "file" /\ InTransaction(t)
          /\ pc'[t] = "done" /\ loc'[t].opres = "operr")
         => /\ loc'[t].res = "operr"
            /\ \A key \in TxKeys(loc[t]) :
                 ~loc[t].opers[key].closed
                 => disk'[getKey(key, Password)] = loc[t].pre[getKey(key, Password)]]_vars

\* a transaction returned the error of its operation function, which had
\* staged a Set on one key and flushed the Operable of another
C4_Witness ==
    \E t \in Threads, key \in Keys, other \in Keys :
        /\ store = "file" /\ loc[t].kind = "txn" /\ pc[t] = "done"
        /\ loc[t].opres = "operr" /\ loc[t].res = "operr"
        /\ loc[t].opers[key].op = "writeOp" /\ ~loc[t].opers[key].closed
        /\ loc[t].opers[other].closed

\* what Transaction leaves of one key when it returns nil: o is the Operable,
\* slots the slot files of the key, before those the snapshot was read from
CommitDone(o, slots, before) ==
    IF o.op = "writeOp"
      THEN Decrypted(read(slots), Password) = [data |-> o.data, err |-> "nil"]
    ELSE IF o.op = "deleteOp"
      THEN /\ Decrypted(read(slots), Password).err = "notexist"
           /\ ~o.existed => slots = before
    ELSE slots = before

\* C5: when Filestore.Transaction is about to return nil, for every key of
\* the transaction: if the last staged call was Set(v), GetBytes returns v; if
\* it was Delete, GetBytes reports that the key does not exist, and the slot
\* files were not touched if the key did not exist at snapshot time; if
\* nothing was staged, the slot files are as they were.
C5_CommitOfStaged ==
    \A t \in Threads :
        (store = "file" /\ loc[t].kind = "txn" /\ pc[t] = "flush"
         /\ Pending(loc[t]) = {})
        => \A key \in TxKeys(loc[t]) :
             CommitDone(loc[t].opers[key], disk[getKey(key, Password)],
                        loc[t].pre[getKey(key, Password)])

\* a transaction is about to return nil after a Set on one key and a Delete
\* on another that existed
C5_Witness ==
    \E t \in Threads, key \in Keys, other \in Keys :
        /\ store = "file" /\ loc[t].kind = "txn" /\ pc[t] = "flush"
        /\ Pending(loc[t]) = {}
        /\ loc[t].opers[key].op = "writeOp"
        /\ loc[t].opers[other].op = "deleteOp" /\ loc[t].opers[other].existed

\* C6: a call of Key, Exists, Get, Set, Delete or Flush on an Operable that
\* has been flushed, of a Filestore or of a Memstore, panics and changes
\* neither the Operable nor what is stored.
C6_UseAfterClose ==
    [][\A t \in Threads, key \in Keys :
         (/\ pc[t] = "op" /\ loc[t].opers[key].closed
          /\ loc'[t] # loc[t] /\ loc'[t].call = key)
         => /\ loc'[t].res = "panic" /\ pc'[t] \in {"done", "dead"}
            /\ loc'[t].opers = loc[t].opers
            /\ disk' = disk /\ mstore' = mstore]_vars

\* a call on an Operable that had written its key to the Filestore panicked
C6_Witness ==
    \E t \in Threads :
        /\ store = "file" /\ loc[t].res = "panic" /\ loc[t].call # 0
        /\ loc[t].opers[loc[t].call].closed
        /\ loc[t].opers[loc[t].call].op = "writeOp"


\* the errors a call of the store or of the codec can return
Errors == {"nil", "notexist", "objectnotfound", "eof", "newestfile", "invalidval",
           "readsize", "readcontents", "readchecksum", "shortread", "checksum",
           "invalidsize", "cannotread", "cannotdecrypt", "baddecryption", "operr"}

\* C13: Exists(err) is false exactly for the two errors that say the key is
\* not there, os.ErrNotExist and the Memstore's "object not found"; GetBytes
\* of a Filestore or of a Memstore returns an error for which Exists is
\* false when the key holds no value, and a result for which Exists is true
\* when it holds one.
C13_NotFoundDistinction ==
    /\ \A err \in Errors : Exists(err) <=> err \notin {"notexist", "objectnotfound"}
    /\ \A t \in Threads :
         (loc[t].kind = "get" /\ pc[t] \in {"done", "dead"})
         => /\ Exists(loc[t].res) <=> loc[t].out # Absent
            /\ store = "file" => (loc[t].out # Absent <=> loc[t].exp # Absent)

\* a Memstore was asked for a key it does not hold
C13_Witness ==
    \E t \in Threads :
        /\ store = "mem" /\ loc[t].kind = "get" /\ pc[t] = "done"
        /\ loc[t].res = "objectnotfound" /\ mstore[loc[t].key] = Absent


\* a Memstore transaction has taken its snapshots and has not yet flushed
\* the last of its Operables
MemRunning(t) ==
    /\ store = "mem" /\ loc[t].kind = "txn" /\ pc[t] \in {"op", "flush"}
    /\ \E key \in TxKeys(loc[t]) : ~loc[t].opers[key].closed

\* C17: between the moment a Memstore transaction takes its snapshots and
\* the moment it has flushed the last of its keys, no other thread is in
\* SetBytes, GetBytes or Delete under the mutex, or in a transaction that
\* has taken its snapshots.
C17_MemSerialized ==
    \A t \in Threads : \A u \in Threads \ {t} :
        MemRunning(t) => ~(store = "mem" /\ pc[u] \in {"m_op", "op", "flush"})

\* C19: while the operation function of a transaction is executing,
\* IsClosed of each of its Operables and of its Extender returns true.
C19_IsClosedInScope ==
    \A t \in Threads :
        (pc[t] = "op" /\ loc[t].kind = "txn")
        => /\ ExtenderIsClosed(loc[t])
           /\ \A key \in TxKeys(loc[t]) : IsClosed(loc[t].opers[key])

HoldsTable(t) == t \in fmu.r \/ (fmu.w = t /\ fmu.x)

\* the thread holds the table mutex f exclusively
HoldsTableExclusive(t) == fmu.w = t /\ fmu.x /\ fmu.r = {}

\* where a thread has the lock of a key from a lookup in f.keyLocks and is
\* in its Lock or RLock (takeWriteLock, takeReadLock)
LookupPcs == {"sl_klock", "sl_kwait"}

\* where a thread is in the loop of takeTransactionLocks
InsertPcs == {"tl_klock", "tl_kwait"}

\* where the next step of a thread is a call of the codec, or may be one
CodecPcs == {"io_create", "io_write", "io_del1", "io_del2", "io_read", "ext_read",
             "op", "flush", "fl_write", "fl_del2"}

WaitsForKey(t) == pc[t] \in LookupPcs \cup InsertPcs /\ Waits(t)

\* C22: a thread that is blocked in Lock or RLock of the lock of a key does
\* not hold the table mutex, neither shared nor exclusively.
C22_TableFreeWhileWaiting ==
    \A t \in Threads : (store = "file" /\ WaitsForKey(t)) => ~HoldsTable(t)

\* C24: in the step in which Extend returns Operables, the transaction
\* holds the lock of every new key exclusively and the snapshot of each new
\* Operable (data, exists) is what the last holder of the key's lock left
\* stored; and from then until Transaction returns every change of the files
\* of a key of the transaction is a step of the transaction itself, the
\* files being as Extend read them as long as the key's Operable is open.
C24_ExtendMidTransaction ==
    [][\A t \in Threads :
         (store = "file" /\ loc[t].kind = "txn" /\ pc[t] # "done")
         => /\ (pc[t] = "ext_read" /\ pc'[t] = "op")
               => \A k \in Range(loc[t].want) :
                     LET p == getKey(k, Password)
                         o == loc'[t].opers[k]
                     IN  /\ p \in Range(loc[t].held)
                         /\ keyLocks[p].w = t /\ keyLocks[p].x /\ keyLocks[p].r = {}
                         /\ o.has /\ ~o.closed
                         /\ o.exists = (committed[k] # Absent)
                         /\ o.exists => o.data = committed[k]
                         /\ Stored(k) = IF o.exists THEN [data |-> o.data, err |-> "nil"]
                                        ELSE [data |-> <<>>, err |-> "notexist"]
            /\ \A k \in TxKeys(loc[t]) :
                  LET p == getKey(k, Password)
                  IN  /\ disk'[p] # disk[p] => (loc'[t] # loc[t] \/ pc'[t] # pc[t])
                      /\ (pc[t] \in {"op", "flush"} /\ ~loc[t].opers[k].closed)
                         => disk[p] = loc[t].pre[p]]_vars

\* the operation function has extended its transaction to a second key,
\* and another thread that wants to set that key waits for its lock
C24_Witness ==
    \E t \in Threads, u \in Threads :
        /\ t # u /\ store = "file"
        /\ loc[t].kind = "txn" /\ pc[t] = "op" /\ Len(loc[t].groups) = 2
        /\ loc[u].kind = "set" /\ loc[u].key \in loc[t].groups[2]
        /\ pc[u] \in LookupPcs /\ Waits(u)

\* what GetBytes gives as (data, exists), g being what it returns
Given(g) == [data |-> g.data, exists |-> g.err = "nil"]

\* what GetBytes would give for a key, from its files or from its entry of
\* the map, as (data, exists)
Kept(slots, value) ==
    IF store = "file" THEN Given(Decrypted(read(slots), Password))
    ELSE [data |-> IF value = Absent THEN <<>> ELSE value, exists |-> value # Absent]

\* C26: for every Operable of a transaction, on either store: as long as
\* nothing is staged Get and Exists give the snapshot; a step that stages
\* on an open Operable is a Set, after which they give the value set and
\* true, or a Delete, after which they give no data and false, and it changes
\* neither the files nor the map; and the step that ends the Flush of a
\* staged operation leaves stored what Get and Exists gave last.
C26_Staging ==
    [][\A t \in Threads, key \in Keys :
         LET o == loc[t].opers[key]
             n == loc'[t].opers[key]
         IN  /\ (loc'[t].kind = "txn" /\ n.has /\ n.op = "readOp")
                => OperableGet(n) = [data |-> IF n.snap = Absent THEN <<>> ELSE n.snap,
                                     exists |-> n.snap # Absent]
             /\ (loc[t].kind = "txn" /\ o.has /\ ~o.closed /\ ~n.closed
                 /\ <<n.op, n.data, n.exists>> # <<o.op, o.data, o.exists>>)
                => /\ \/ n.op = "writeOp"
                         /\ OperableGet(n) = [data |-> NewValue(t, o), exists |-> TRUE]
                      \/ n.op = "deleteOp"
                         /\ OperableGet(n) = [data |-> <<>>, exists |-> FALSE]
                   /\ UNCHANGED <<disk, mstore>>
             /\ (loc[t].kind = "txn" /\ o.has /\ ~o.closed /\ n.closed
                 /\ o.op # "readOp")
                => /\ OperableGet(n) = OperableGet(o)
                   /\ Kept(disk'[getKey(key, Password)], mstore'[key]) = OperableGet(o)]_vars

\* a transaction on a key that existed has returned nil after its
\* operation function staged twice on the key's Operable, a Delete last
C26_Witness ==
    \E t \in Threads, key \in Keys :
        /\ loc[t].kind = "txn" /\ pc[t] = "done" /\ loc[t].res = "nil"
        /\ loc[t].groups = <<{key}>> /\ loc[t].steps = 2
        /\ loc[t].opers[key].op = "deleteOp" /\ loc[t].opers[key].snap # Absent
        /\ loc[t].opers[key].closed
        /\ ~Kept(disk[getKey(key, Password)], mstore[key]).exists

\* C27: once Filestore.Transaction has returned, with nil or with the error
\* of the operation function, every Operable it handed out is closed.
C27_ClosedAfterReturn ==
    \A t \in Threads :
        (store = "file" /\ loc[t].kind = "txn" /\ pc[t] = "done"
         /\ loc[t].res \in {"nil", "operr"})
        => \A key \in TxKeys(loc[t]) : IsClosed(loc[t].opers[key])

\* C36: from the snapshots of a Memstore transaction to its return the
\* store mutex is held by the thread of the transaction, which took it once
\* and releases it once, when Transaction returns; the mutex is never
\* unlocked while it is not locked, and no call ends in the fatal error of
\* such an unlock.
C36_MemMutexBalance ==
    store = "mem"
    => /\ ~fatal
       /\ \A t \in Threads :
            /\ pc[t] # "dead"
            /\ (loc[t].kind = "txn" /\ pc[t] \in {"op", "flush"})
                 => (mmu.w = t /\ mmu.x)

(***************************************************************************)
(* Claims about the threads on a storage that can fail (SpecFaulty).       *)
(***************************************************************************)
\* C18: when the flush of a Filestore transaction fails to persist a staged
\* write or delete, Transaction returns, and what it returns is the error
\* of the storage.
C18_FlushFailureReturned ==
    \A t \in Threads :
        (loc[t].kind = "txn" /\ loc[t].flusherr # "nil" /\ pc[t] = "done")
        => loc[t].res = loc[t].flusherr

\* the locks of keys the thread holds or is queued at
LocksOf(t) == {p \in Paths : keyLocks[p].w = t \/ t \in keyLocks[p].r \cup keyLocks[p].q}

\* C23: a Filestore transaction holds the lock of every key it has locked,
\* for its first keys or in Extend, in every state until Transaction
\* returns; the step in which Transaction returns, with nil after the flush
\* of every Operable, with the error of the operation function or with the
\* read or decrypt error of Extend, unlocks each of these locks once and
\* changes no other lock; and after it the thread holds no lock of a key
\* and not the table mutex.
C23_LockLifetime ==
    [][\A t \in Threads :
         /\ (store = "file" /\ loc'[t].kind = "txn")
            => /\ \A p \in Range(loc'[t].held) : keyLocks'[p].w = t /\ keyLocks'[p].x
               /\ pc'[t] # "done"
                  => \A key \in TxKeys(loc'[t]) :
                        getKey(key, Password) \in Range(loc'[t].held)
               /\ pc'[t] = "done"
                  => /\ LocksOf(t)' = {}
                     /\ ~HoldsTable(t)' /\ fmu'.w # t
                     /\ loc'[t].res = "nil"
                        => \A key \in TxKeys(loc'[t]) : loc'[t].opers[key].closed
         /\ (store = "file" /\ loc[t].kind = "txn" /\ pc[t] # "done")
            => IF pc'[t] # "done"
                 THEN \A p \in Range(loc[t].held) : p \in Range(loc'[t].held)
                 ELSE \A p \in Paths :
                        keyLocks'[p] = IF p \in Range(loc[t].held)
                                         THEN Unlock(keyLocks[p]) ELSE keyLocks[p]]_vars

\* a transaction that held the lock of one key was extended to a key whose
\* record cannot be decrypted: Extend returned the error, Transaction has
\* returned it, and the lock it held first is free again
C23_Witness ==
    \E t \in Threads :
        /\ store = "file" /\ loc[t].kind = "txn" /\ pc[t] = "done"
        /\ loc[t].res = "cannotdecrypt" /\ loc[t].groups # <<>>
        /\ \A k \in loc[t].groups[1] : keyLocks[getKey(k, Password)] = FreeMu

(***************************************************************************)
(* Claims about Extenders used after their transaction (SpecLate).         *)
(***************************************************************************)
\* C25: once Transaction has returned, from a Filestore or a Memstore and
\* with whatever result, its Extender is closed, and a call of Extend on it
\* ends in a panic in one step that changes no lock of a key, not the lock
\* table, no mutex, no file and not the map, and gives the transaction no
\* Operable.
C25_ClosedScope ==
    [][\A t \in Threads :
         /\ (loc'[t].kind = "txn" /\ pc'[t] = "done") => ExtenderIsClosed(loc'[t])
         /\ (loc[t].kind = "txn" /\ pc[t] = "done" /\ <<pc[t], loc[t]>>' # <<pc[t], loc[t]>>)
            => /\ pc'[t] = "late_panic" /\ loc'[t].res = "panic"
               /\ loc'[t].opers = loc[t].opers /\ loc'[t].held = loc[t].held
               /\ UNCHANGED <<keyLocks, fmu, mmu, disk, mstore>>]_vars

\* Extend was called on the Extender of a Filestore transaction that had
\* returned the error of its operation function, while another thread was
\* at work under the lock of a key
C25_Witness ==
    \E t \in Threads, u \in Threads :
        /\ t # u /\ store = "file" /\ loc[t].kind = "txn"
        /\ pc[t] = "late_panic" /\ loc[t].opres = "operr"
        /\ pc[u] \in CodecPcs

(***************************************************************************)
(* Claims about the threads under a fair scheduler (SpecLive).             *)
(***************************************************************************)
\* C37: of concurrent Filestore transactions that never call Extend, with
\* key lists in any order, and concurrent SetBytes, GetBytes and Delete,
\* every call that was made returns; and a transaction takes its key locks
\* while it holds the lock of the lock table exclusively.
C37_NoDeadlockWithoutExtend ==
    /\ \A t \in Threads : (pc[t] # "idle") ~> (pc[t] = "done")
    /\ [](\A t \in Threads : pc[t] \in InsertPcs => HoldsTableExclusive(t))

\* a transaction waits for the lock of its first key, which a transaction
\* with the keys in the opposite order holds together with the other
C37_Witness ==
    \E t \in Threads, u \in Threads :
        /\ pc[t] = "op" /\ pc[u] = "tl_klock" /\ loc[u].i = 1
        /\ Len(loc[u].want) = 2
        /\ loc[t].held = <<getKey(loc[u].want[2], Password),
                           getKey(loc[u].want[1], Password)>>

(***************************************************************************)
(* Claims about one thread alone (SpecAlone).                              *)
(***************************************************************************)
\* C38: a Filestore transaction that runs alone returns when its operation
\* function returns, whatever its key lists are, a list that names a key
\* twice and an Extend of a key it holds included; in takeTransactionLocks
\* it never asks for a lock that it holds itself.
C38_TerminatesAlone ==
    /\ (pc[Alone] # "idle") ~> (pc[Alone] = "done")
    /\ [](pc[Alone] = "tl_klock"
          => keyLocks[getKey(loc[Alone].want[loc[Alone].i], Password)].w # Alone)

====
